---- MODULE Spec2Model ----
(***************************************************************************)
(* Model of the arqueo operation pipeline: ArqueoConsumer.callback          *)
(* (arqueo_task_consumer.py) driving operacion_arqueo (arqueo_tasks.py).    *)
(* The RabbitMQ channel and the SICAL desktop application are the           *)
(* environment: every call into them either succeeds or raises, chosen      *)
(* nondeterministically.                                                    *)
(***************************************************************************)
EXTENDS Integers, Sequences, FiniteSets, TLC

(* ---------------------------------------------------------------- bounds *)
\* deliveries the broker makes in one run
MaxDeliveries == 2
\* line items (aplicaciones) in one inbound payload
MaxItems == 2
\* largest record count the Filtros window reports
MaxCount == 3
\* consumer threads the GUI creates in one run
MaxStarts == 3
\* characters of a description before its ending
MaxText == 2
MaxThreads == 2
MaxCalls == 4

(* ------------------------------------------------------------- constants *)
\* a plausible slip: a prefetch window of two
MutPrefetchTwo == 1 + 1

\* basic_qos(prefetch_count=1)
PrefetchCount == 1

\* routing_key='sical_results'
ResultQueue == "sical_results"

\* FINALIZE_SUFFIX = '_FIN'
FINALIZE_SUFFIX == <<"_", "F", "I", "N">>

None == "None"

(* ------------------------------------------------ strings as char sequences *)
DigitChars == <<"0", "1", "2", "3", "4", "5", "6", "7", "8", "9">>

IsDigit(c) == \E d \in 1..10 : DigitChars[d] = c

DigitVal(c) == (CHOOSE d \in 1..10 : DigitChars[d] = c) - 1

RECURSIVE StrOfNat(_)
\* str(n) for a non-negative int
StrOfNat(n) ==
    IF n < 10 THEN <<DigitChars[n + 1]>>
    ELSE StrOfNat(n \div 10) \o <<DigitChars[(n % 10) + 1]>>

\* str(x) for a float x >= 0 with one decimal, x given in tenths: 25 -> "2.5"
StrOfFloat(t) == StrOfNat(t \div 10) \o <<".">> \o <<DigitChars[(t % 10) + 1]>>

\* s.replace(a, b) for single characters
Replace(s, a, b) == [i \in 1..Len(s) |-> IF s[i] = a THEN b ELSE s[i]]

EndsWith(s, suf) ==
    /\ Len(s) >= Len(suf)
    /\ SubSeq(s, Len(s) - Len(suf) + 1, Len(s)) = suf

RECURSIVE LStrip(_)
LStrip(s) == IF s # <<>> /\ Head(s) = " " THEN LStrip(Tail(s)) ELSE s

RECURSIVE RStrip(_)
RStrip(s) ==
    IF s # <<>> /\ s[Len(s)] = " " THEN RStrip(SubSeq(s, 1, Len(s) - 1)) ELSE s

\* str.strip(): leading and trailing whitespace
Strip(s) == RStrip(LStrip(s))

RECURSIVE NatOfStr(_)
NatOfStr(s) ==
    IF s = <<>> THEN 0
    ELSE 10 * NatOfStr(SubSeq(s, 1, Len(s) - 1)) + DigitVal(s[Len(s)])

AllDigits(s) == \A i \in 1..Len(s) : IsDigit(s[i])

DotAt(s) == IF \E i \in 1..Len(s) : s[i] = "."
            THEN CHOOSE i \in 1..Len(s) : s[i] = "." /\ \A j \in 1..(i - 1) : s[j] # "."
            ELSE 0

\* a decimal numeral: digits, or digits "." digit (one decimal is all the
\* model's amounts need)
IsDecimal(s) ==
    LET d == DotAt(s) IN
    IF d = 0 THEN s # <<>> /\ AllDigits(s)
    ELSE /\ AllDigits(SubSeq(s, 1, d - 1))
         /\ AllDigits(SubSeq(s, d + 1, Len(s)))
         /\ Len(s) - d <= 1
         /\ Len(s) > 1

\* the text float() turns into the float nan
NanStr == <<"n", "a", "n">>

\* float("nan") in the model: like nan it is not > 0, and it is no amount
NaN == 0 - 1

\* FloatOk(s) is "float(s) does not raise ValueError": float() accepts the
\* decimal numerals and, among other texts, "nan"
FloatOk(s) == IsDecimal(s) \/ s = NanStr

\* float(s), in tenths
FloatOf(s) ==
    LET d == DotAt(s) IN
    IF s = NanStr THEN NaN
    ELSE IF d = 0 THEN 10 * NatOfStr(s)
    ELSE 10 * NatOfStr(SubSeq(s, 1, d - 1)) + NatOfStr(SubSeq(s, d + 1, Len(s)))

\* float(aplicacion["importe"].replace(",", "."))
ImporteOk(importe) == FloatOk(Replace(importe, ",", "."))

ImporteValue(importe) == FloatOf(Replace(importe, ",", "."))

(* ------------------------------------------------------- inbound payloads *)
\* a JSON number (float, in tenths) or a JSON string
RawFloat(t) == [t |-> "float", v |-> t, s |-> <<>>]

RawStr(s) == [t |-> "str", v |-> 0, s |-> s]

\* a JSON integer, and a key the item does not have
RawInt(n) == [t |-> "int", v |-> n, s |-> <<>>]

RawMissing == [t |-> "missing", v |-> 0, s |-> <<>>]

\* the economic code every line item of the consumer's deliveries carries
Economica30012 == RawStr(<<"3", "0", "0", "1", "2">>)

\* a JSON value of 'contraido': a boolean, an integer, a float (in tenths), a
\* string, or null
CBool(b) == [t |-> "bool", b |-> b, n |-> 0, s |-> <<>>]

CInt(n) == [t |-> "int", b |-> FALSE, n |-> n, s |-> <<>>]

CFloat(tenths) == [t |-> "float", b |-> FALSE, n |-> tenths, s |-> <<>>]

CStr(s) == [t |-> "str", b |-> FALSE, n |-> 0, s |-> s]

CNone == [t |-> "none", b |-> FALSE, n |-> 0, s |-> <<>>]

\* bool(v), the truth value Python gives v
Truthy(v) ==
    CASE v.t = "bool" -> v.b
      [] v.t \in {"int", "float"} -> v.n # 0
      [] v.t = "str" -> v.s # <<>>
      [] OTHER -> FALSE

\* the raw line items the model draws from: a zero amount, a positive amount
\* without and with a linked reference, and a malformed amount
RawItems ==
    { [economica |-> Economica30012, importe |-> RawFloat(0),  contraido |-> CBool(FALSE)],
      [economica |-> Economica30012, importe |-> RawFloat(10), contraido |-> CBool(FALSE)],
      [economica |-> Economica30012, importe |-> RawFloat(25), contraido |-> CBool(TRUE)],
      [economica |-> Economica30012, importe |-> RawStr(<<"x">>), contraido |-> CBool(FALSE)] }

\* a line item whose amount is a text that float() accepts and that is no number
NanItem == [economica |-> Economica30012, importe |-> RawStr(NanStr),
            contraido |-> CBool(FALSE)]

SeqsUpTo(S, n) == UNION { [1..k -> S] : k \in 0..n }

Textos == { <<"A">>, <<"A", "_", "F", "I", "N">> }

\* Optional[str]
NoneText == [null |-> TRUE, s |-> <<>>]

Text(s) == [null |-> FALSE, s |-> s]

\* the value under 'texto_sical': the key missing, an empty list, a list whose
\* first element has no 'tcargo', or one whose first element has it
NoTextoSical == [kind |-> "missing", tcargo |-> NoneText]

TextoSical(tcargo) == [kind |-> "tcargo", tcargo |-> tcargo]

Naturalezas == { "4", "5", "9" }

\* detalle of an inbound operation
Detalles ==
    [ naturaleza : Naturalezas,
      texto_sical : { TextoSical(Text(t)) : t \in Textos },
      aplicaciones : SeqsUpTo(RawItems, MaxItems) \cup { <<NanItem>> } ]

\* the dict {}: every key takes its default
EmptyDetalle == [naturaleza |-> "4", texto_sical |-> NoTextoSical, aplicaciones |-> <<>>]

\* message bodies: unparsable, JSON without operation_data.operation,
\* JSON whose operation_data.operation is null, operation = {tipo, detalle:
\* payload} ("ok"), and operation = the payload itself ("ok_raw"); detalle is
\* the payload
Bodies ==
    { [kind |-> "bad_json", detalle |-> EmptyDetalle],
      [kind |-> "no_operation", detalle |-> EmptyDetalle],
      [kind |-> "null_operation", detalle |-> EmptyDetalle] }
    \cup { [kind |-> "ok", detalle |-> d] : d \in Detalles }
    \cup { [kind |-> "ok_raw", detalle |-> d] : d \in Detalles }

\* pika.BasicProperties of an inbound message
Properties ==
    { [correlation_id |-> "c1", reply_to |-> None],
      [correlation_id |-> "c2", reply_to |-> "reply_q"] }

(* ------------------------------------------------------ record transformer *)
\* check_finalize_flag(texto) -> (cleaned_text, should_finalize)
check_finalize_flag(texto) ==
    IF ~texto.null /\ texto.s # <<>> /\ EndsWith(texto.s, FINALIZE_SUFFIX)
    THEN [texto |-> Text(Strip(SubSeq(texto.s, 1, Len(texto.s) - Len(FINALIZE_SUFFIX)))),
          finalizar |-> TRUE]
    ELSE [texto |-> texto, finalizar |-> FALSE]

\* importe coercion of create_aplicaciones: str(importe).replace('.', ',') for a
\* number, str(importe) otherwise
CoerceImporte(raw) ==
    IF raw.t = "float" THEN Replace(StrOfFloat(raw.v), ".", ",") ELSE raw.s

\* a plausible slip: every linked reference reduced to a flag
MutContraidoToBool(contraido) == CBool(Truthy(contraido))

\* contraido coercion of create_aplicaciones: a bool or an int as it is, a float
\* as int(contraido), anything else as bool(contraido)
coerce_contraido(contraido) ==
    CASE contraido.t = "bool" -> contraido
      [] contraido.t = "int" -> contraido
      [] contraido.t = "float" -> CInt(contraido.n \div 10)
      [] OTHER -> CBool(Truthy(contraido))

\* a value of the mapping table: one ledger code, or a list of codes
Cuenta(c) == [list |-> FALSE, v |-> <<c>>]

CuentaList(l) == [list |-> TRUE, v |-> l]

\* partidas_cuentaPG: economic code -> ledger code
partidas_cuentaPG ==
    (StrOfNat(130) :> Cuenta("727")) @@ (StrOfNat(300) :> Cuenta("740")) @@
    (StrOfNat(302) :> Cuenta("740")) @@ (StrOfNat(32900) :> Cuenta("740")) @@
    (StrOfNat(32901) :> Cuenta("740")) @@ (StrOfNat(32905) :> Cuenta("740")) @@
    (StrOfNat(325) :> Cuenta("740")) @@ (StrOfNat(332) :> Cuenta("742")) @@
    (StrOfNat(389) :> Cuenta("775")) @@ (StrOfNat(399) :> Cuenta("777")) @@
    (StrOfNat(42000) :> Cuenta("7501")) @@ (StrOfNat(45000) :> Cuenta("7501")) @@
    (StrOfNat(45002) :> CuentaList(<<"9411", "24000014">>)) @@
    (StrOfNat(290) :> Cuenta("733")) @@ (StrOfNat(549) :> Cuenta("776")) @@
    (StrOfNat(20104) :> Cuenta("561")) @@ (StrOfNat(30012) :> Cuenta("554")) @@
    (StrOfNat(30016) :> Cuenta("554"))

\* economica = str(aplicacion.get('economica', ''))
str_economica(raw) ==
    CASE raw.t = "str" -> raw.s
      [] raw.t = "int" -> StrOfNat(raw.v)
      [] raw.t = "float" -> StrOfFloat(raw.v)
      [] OTHER -> <<>>

\* a plausible slip: the table indexed without a default, every code taken to
\* be a key
MutCuentaNoDefault(economica) ==
    IF economica \in DOMAIN partidas_cuentaPG THEN partidas_cuentaPG[economica]
    ELSE Cuenta("error")

\* cuenta = partidas_cuentaPG.get(economica, '000')
cuenta_of(economica) ==
    IF economica \in DOMAIN partidas_cuentaPG THEN partidas_cuentaPG[economica]
    ELSE Cuenta("000")

\* create_aplicaciones(aplicaciones_data): one output item per input item, in order
create_aplicaciones(aplicaciones_data) ==
    [ i \in 1..Len(aplicaciones_data) |->
        [ partida |-> str_economica(aplicaciones_data[i].economica),
          importe |-> CoerceImporte(aplicaciones_data[i].importe),
          contraido |-> coerce_contraido(aplicaciones_data[i].contraido),
          cuenta |-> cuenta_of(str_economica(aplicaciones_data[i].economica)) ] ]

\* texto_sical = operation_data.get('texto_sical', [{}])
\* texto_operacion = texto_sical[0].get('tcargo', '') if texto_sical else ''
texto_operacion(texto_sical) ==
    IF texto_sical.kind = "tcargo" THEN texto_sical.tcargo ELSE Text(<<>>)

\* create_arqueo_data(detalle)
create_arqueo_data(detalle) ==
    LET flag == check_finalize_flag(texto_operacion(detalle.texto_sical)) IN
    [ naturaleza |-> detalle.naturaleza,
      resumen |-> flag.texto,
      finalizar_operacion |-> flag.finalizar,
      aplicaciones |-> create_aplicaciones(detalle.aplicaciones) ]

NoDatos == [naturaleza |-> "4", resumen |-> Text(<<>>), finalizar_operacion |-> FALSE,
            aplicaciones |-> <<>>]

(* ------------------------------------------------------------------ state *)
VARIABLES
    STATUS_CALLBACK,   \* arqueo_task_consumer.STATUS_CALLBACK is set
    TASK_CALLBACK,     \* arqueo_tasks.TASK_CALLBACK is set
    gui_attached,      \* the observers set are ArqueosGUI's own callbacks
    nextTag,           \* broker: next delivery tag
    unacked,           \* broker: delivery tags delivered and not yet (n)acked
    buffer,            \* delivery tags received by pika, callback not yet called
    pc,                \* position of the consumer thread
    cur,               \* callback arguments (method, properties, body)
    task_id,           \* callback local task_id
    datos_arqueo,      \* operacion_arqueo local datos_arqueo
    result,            \* the OperationResult
    idx,               \* fill_main_panel_data loop index i
    suma_aplicaciones, \* fill_main_panel_data local suma_aplicaciones
    entered,           \* line items committed in the arqueo window, in order
    events,            \* calls made while handling cur, in order
    published,         \* the response published for cur
    raised,            \* where the exception that reached the except clause rose
    reported,          \* what the duplicate query showed
    query_windows,     \* the query windows the duplicate check opened and left open
    consumer_thread,   \* ArqueosGUI.consumer_thread (and .consumer): 0 is None
    threads,           \* the consumer threads created so far
    service_running,   \* status_manager.service_running
    service_log,       \* the last line start_service / stop_service logged
    start_button,      \* state of the Start button
    stop_button,       \* state of the Stop button
    stats,             \* StatusManager.stats
    current_task,      \* StatusManager.current_task (its task_id), or None
    data_lock,         \* StatusManager._data_lock: 0 is free, else its holder
    callers,           \* threads calling StatusManager methods
    calls              \* StatusManager method calls made so far

vars == << STATUS_CALLBACK, TASK_CALLBACK, gui_attached, nextTag, unacked, buffer, pc, cur,
           task_id, datos_arqueo, result, idx, suma_aplicaciones, entered,
           events, published, raised, reported, query_windows, consumer_thread,
           threads,
           service_running, service_log, start_button, stop_button,
           stats, current_task, data_lock, callers, calls >>

\* Optional[float]
NoneNum == [some |-> FALSE, v |-> 0]

Some(x) == [some |-> TRUE, v |-> x]

NoDelivery == [tag |-> 0, properties |-> [correlation_id |-> None, reply_to |-> None],
               body |-> [kind |-> "bad_json", detalle |-> EmptyDetalle]]

\* OperationResult(status=PENDING, init_time=..., sical_is_open=False)
NewResult ==
    [ status |-> "PENDING", end_time |-> FALSE, duration |-> FALSE, error |-> None,
      num_operacion |-> None, total_operacion |-> NoneNum,
      suma_aplicaciones |-> NoneNum, sical_is_open |-> FALSE,
      similiar_records_encountered |-> 0 ]

NoResult == [NewResult EXCEPT !.status = None]

NoResponse == [routing_key |-> None, correlation_id |-> None, status |-> None,
               operation_id |-> None, error |-> None]

NoReport == [kind |-> "none", n |-> 0]

(* ------------------------------------------------- status_manager.StatusManager *)
\* StatusManager.__init__: self.stats
ZeroStats == [pending |-> 0, processing |-> 0, completed |-> 0, failed |-> 0,
              total_processed |-> 0]

\* the threads that call the status manager: the Tk thread and consumer threads
Threads == 1..MaxThreads

TaskIds == {"t1", "t2"}

\* a thread outside the status manager
IdleCaller == [at |-> "idle", method |-> "none", task_id |-> None, success |-> FALSE,
               k |-> 0]

\* the calls a thread can make: method and arguments
MethodCalls ==
    { [method |-> "task_received", task_id |-> i, success |-> FALSE] : i \in TaskIds }
    \cup { [method |-> "task_started", task_id |-> i, success |-> FALSE] : i \in TaskIds }
    \cup { [method |-> "task_completed", task_id |-> i, success |-> b] :
             i \in TaskIds, b \in BOOLEAN }
    \cup { [method |-> "reset_stats", task_id |-> None, success |-> FALSE] }

\* StatusManager.task_received, statement k, on m = [stats, current_task]:
\*   1  self.stats['pending'] += 1
task_received(m, k, id) == [m EXCEPT !.stats.pending = @ + 1]

\* StatusManager.task_started, statement k:
\*   1  if self.stats['pending'] > 0:
\*   2      self.stats['pending'] -= 1
\*   3  self.stats['processing'] += 1
\*   4  self.current_task = TaskInfo(task_id=task_id, ...)
task_started(m, k, id) ==
    CASE k = 1 -> m
      [] k = 2 -> [m EXCEPT !.stats.pending = @ - 1]
      [] k = 3 -> [m EXCEPT !.stats.processing = @ + 1]
      [] OTHER -> [m EXCEPT !.current_task = id]

\* StatusManager.task_completed, statement k:
\*   1  if self.stats['processing'] > 0:
\*   2      self.stats['processing'] -= 1
\*   3  if success: self.stats['completed'] += 1  else: self.stats['failed'] += 1
\*   4  self.stats['total_processed'] += 1
\*   5  if self.current_task and self.current_task.task_id == task_id:
\*          self.current_task = None
task_completed(m, k, id, success) ==
    CASE k = 1 -> m
      [] k = 2 -> [m EXCEPT !.stats.processing = @ - 1]
      [] k = 3 -> IF success THEN [m EXCEPT !.stats.completed = @ + 1]
                  ELSE [m EXCEPT !.stats.failed = @ + 1]
      [] k = 4 -> [m EXCEPT !.stats.total_processed = @ + 1]
      [] OTHER -> IF m.current_task # None /\ m.current_task = id
                  THEN [m EXCEPT !.current_task = None] ELSE m

\* StatusManager.reset_stats, statement k:
\*   1  self.stats = {'pending': 0, ..., 'total_processed': 0}
\*   2  self.current_task = None
reset_stats(m, k) ==
    IF k = 1 THEN [m EXCEPT !.stats = ZeroStats] ELSE [m EXCEPT !.current_task = None]

\* the number of statements of a method
LastStatement(method) ==
    CASE method = "task_received" -> 1
      [] method = "task_started" -> 4
      [] method = "task_completed" -> 5
      [] OTHER -> 2

\* statement k of the call c applied to m
Statement(c, m, k) ==
    CASE c.method = "task_received" -> task_received(m, k, c.task_id)
      [] c.method = "task_started" -> task_started(m, k, c.task_id)
      [] c.method = "task_completed" -> task_completed(m, k, c.task_id, c.success)
      [] OTHER -> reset_stats(m, k)

\* the statement after k: an if whose test fails skips its body
Jump(c, m, k) ==
    IF k = 1 /\ c.method = "task_started" /\ ~(m.stats.pending > 0) THEN 3
    ELSE IF k = 1 /\ c.method = "task_completed" /\ ~(m.stats.processing > 0) THEN 3
    ELSE k + 1

RECURSIVE RunFrom(_, _, _)
RunFrom(c, m, k) ==
    IF k > LastStatement(c.method) THEN m
    ELSE RunFrom(c, Statement(c, m, k), Jump(c, m, k))

\* the whole method, run with the lock held and nobody else in
RunMethod(c, m) == RunFrom(c, m, 1)

\* a plausible slip: the methods run without taking the lock
MutLockAlwaysFree(l) == TRUE

\* threading.Lock: acquire goes through only while nobody holds it
LockFree(l) == l = 0

\* status_manager = StatusManager(): zero counters, no task, the lock free
ManagerInit ==
    /\ stats = ZeroStats
    /\ current_task = None
    /\ data_lock = 0
    /\ callers = [t \in Threads |-> IdleCaller]
    /\ calls = 0

\* ArqueosGUI.__init__ and create_control_panel: no consumer, no thread, Start
\* enabled, Stop disabled
GuiInit ==
    /\ consumer_thread = 0
    /\ threads = <<>>
    /\ service_running = FALSE
    /\ service_log = "none"
    /\ start_button = "normal"
    /\ stop_button = "disabled"

\* Spec follows one consumer thread through callback, with the observers set
\* or not; the GUI's own state stays as constructed.
Init ==
    /\ GuiInit
    /\ STATUS_CALLBACK \in BOOLEAN
    /\ TASK_CALLBACK = STATUS_CALLBACK
    /\ gui_attached = FALSE
    /\ ManagerInit
    /\ nextTag = 1
    /\ unacked = {}
    /\ buffer = <<>>
    /\ pc = "idle"
    /\ cur = NoDelivery
    /\ task_id = None
    /\ datos_arqueo = NoDatos
    /\ result = NoResult
    /\ idx = 0
    /\ suma_aplicaciones = 0
    /\ entered = <<>>
    /\ events = <<>>
    /\ published = NoResponse
    /\ raised = "none"
    /\ reported = NoReport
    /\ query_windows = {}

opVars == << datos_arqueo, result, idx, suma_aplicaciones, entered, reported, query_windows >>

brokerVars == << nextTag, unacked, buffer >>

cbVars == << STATUS_CALLBACK, TASK_CALLBACK, gui_attached >>

managerVars == << stats, current_task, data_lock, callers, calls >>

guiVars == << consumer_thread, threads, service_running, service_log,
              start_button, stop_button >>

\* the state of one callback in progress
consumerVars == << buffer, pc, cur, task_id, datos_arqueo, result, idx,
                   suma_aplicaciones, entered, events, published, raised,
                   reported, query_windows >>

(* ----------------------------------------------------------------- broker *)
\* The broker pushes a message to the consumer while fewer than prefetch_count
\* deliveries are unacknowledged (setup_connection: basic_qos). What the
\* message holds is drawn when the callback reads it.
Deliver ==
    /\ pc # "stopped"
    /\ nextTag <= MaxDeliveries
    /\ Cardinality(unacked) < PrefetchCount
    /\ buffer' = Append(buffer, nextTag)
    /\ unacked' = unacked \cup {nextTag}
    /\ nextTag' = nextTag + 1
    /\ UNCHANGED << pc, cur, task_id, events, published, raised >>
    /\ UNCHANGED opVars
    /\ UNCHANGED cbVars
    /\ UNCHANGED guiVars
    /\ UNCHANGED managerVars

(* ------------------------------------ ArqueoConsumer.callback, before the call *)
\* pika calls callback(ch, method, properties, body) with the next buffered
\* delivery; task_id = None
CallbackBegin ==
    /\ pc = "idle"
    /\ buffer # <<>>
    /\ \E body \in Bodies, props \in Properties :
          cur' = [tag |-> Head(buffer), properties |-> props, body |-> body]
    /\ buffer' = Tail(buffer)
    /\ pc' = "parse"
    /\ task_id' = None
    /\ UNCHANGED << events, published, raised, nextTag, unacked >>
    /\ UNCHANGED opVars
    /\ UNCHANGED cbVars
    /\ UNCHANGED guiVars
    /\ UNCHANGED managerVars

\* a plausible slip: a parse error swallowed, the body taken as empty
MutParseNeverRaises(body) == FALSE

\* json.loads(body) raises json.JSONDecodeError
ParseRaises(body) == body.kind = "bad_json"

\* data = json.loads(body); task_id = data.get('task_id', 'unknown')
Parse ==
    /\ pc = "parse"
    /\ IF ParseRaises(cur.body)
       THEN /\ raised' = "parse"
            /\ pc' = "except"
            /\ task_id' = task_id
       ELSE /\ raised' = raised
            /\ pc' = "task_received"
            /\ task_id' = "t1"
    /\ UNCHANGED << cur, events, published >>
    /\ UNCHANGED opVars
    /\ UNCHANGED brokerVars
    /\ UNCHANGED cbVars
    /\ UNCHANGED guiVars
    /\ UNCHANGED managerVars

\* an observer other than the GUI's raises; ArqueosGUI.status_callback and
\* task_callback only call the status manager, which does not raise
ObserverRaises(callback) == callback /\ ~gui_attached

\* ArqueosGUI.status_callback(event, task_id=task_id): the status manager
\* method the event stands for
status_callback(event, id) ==
    CASE event = "task_received" ->
           [method |-> "task_received", task_id |-> id, success |-> FALSE]
      [] event = "task_started" ->
           [method |-> "task_started", task_id |-> id, success |-> FALSE]
      [] event = "task_completed" ->
           [method |-> "task_completed", task_id |-> id, success |-> TRUE]
      [] OTHER ->
           [method |-> "task_completed", task_id |-> id, success |-> FALSE]

\* STATUS_CALLBACK(event, task_id=task_id) returns: with the GUI's callback
\* set, the status manager has run the method
StatusCallbackRuns(event) ==
    IF gui_attached
    THEN LET m == RunMethod(status_callback(event, task_id),
                            [stats |-> stats, current_task |-> current_task]) IN
         /\ stats' = m.stats
         /\ current_task' = m.current_task
    ELSE UNCHANGED << stats, current_task >>

\* operation = data.get('operation_data', {}).get('operation', {});
\* detalle = operation.get('detalle', {}) raises AttributeError when the
\* message holds "operation": null
ExtractRaises(body) == body.kind = "null_operation"

\* if STATUS_CALLBACK: STATUS_CALLBACK('task_received', task_id=task_id)
NotifyReceived ==
    /\ pc = "task_received"
    /\ \/ /\ ~STATUS_CALLBACK
          /\ pc' = "task_started"
          /\ UNCHANGED << events, raised, stats, current_task >>
       \/ /\ STATUS_CALLBACK
          /\ events' = Append(events, "task_received")
          /\ StatusCallbackRuns("task_received")
          /\ pc' = "task_started"
          /\ raised' = raised
       \/ /\ ObserverRaises(STATUS_CALLBACK)
          /\ events' = Append(events, "task_received")
          /\ pc' = "except"
          /\ raised' = "observer"
          /\ UNCHANGED << stats, current_task >>
    /\ UNCHANGED << cur, task_id, published >>
    /\ UNCHANGED opVars
    /\ UNCHANGED brokerVars
    /\ UNCHANGED cbVars
    /\ UNCHANGED guiVars
    /\ UNCHANGED << data_lock, callers, calls >>

\* the operation and detalle lookups, then
\* if STATUS_CALLBACK: STATUS_CALLBACK('task_started', task_id=task_id, ...)
NotifyStarted ==
    /\ pc = "task_started"
    /\ \/ /\ ExtractRaises(cur.body)
          /\ pc' = "except"
          /\ raised' = "extract"
          /\ UNCHANGED << events, stats, current_task >>
       \/ /\ ~ExtractRaises(cur.body)
          /\ ~STATUS_CALLBACK
          /\ pc' = "invoke"
          /\ UNCHANGED << events, raised, stats, current_task >>
       \/ /\ ~ExtractRaises(cur.body)
          /\ STATUS_CALLBACK
          /\ events' = Append(events, "task_started")
          /\ StatusCallbackRuns("task_started")
          /\ pc' = "invoke"
          /\ raised' = raised
       \/ /\ ~ExtractRaises(cur.body)
          /\ ObserverRaises(STATUS_CALLBACK)
          /\ events' = Append(events, "task_started")
          /\ pc' = "except"
          /\ raised' = "observer"
          /\ UNCHANGED << stats, current_task >>
    /\ UNCHANGED << cur, task_id, published >>
    /\ UNCHANGED opVars
    /\ UNCHANGED brokerVars
    /\ UNCHANGED cbVars
    /\ UNCHANGED guiVars
    /\ UNCHANGED << data_lock, callers, calls >>

\* result = operacion_arqueo(data['operation_data']['operation']): the lookup
\* raises KeyError when the key is missing; otherwise operacion_arqueo starts
\* with result = OperationResult(status=PENDING, sical_is_open=False)
Invoke ==
    /\ pc = "invoke"
    /\ IF cur.body.kind = "no_operation"
       THEN /\ raised' = "invoke"
            /\ pc' = "except"
            /\ UNCHANGED << events, result >>
       ELSE /\ raised' = raised
            /\ pc' = "op_prepare"
            /\ events' = Append(events, "operacion_arqueo")
            /\ result' = NewResult
    /\ UNCHANGED << cur, task_id, published >>
    /\ UNCHANGED << datos_arqueo, idx, suma_aplicaciones, entered, reported, query_windows >>
    /\ UNCHANGED brokerVars
    /\ UNCHANGED cbVars
    /\ UNCHANGED guiVars
    /\ UNCHANGED managerVars

(* ------------------------------------------------------- operacion_arqueo *)
\* a plausible slip: the status set without the message
MutFailedNoMessage(r, msg) == [r EXCEPT !.status = "FAILED"]

\* result.status = OperationStatus.FAILED; result.error = <message>
OpFailed(r, msg) == [r EXCEPT !.status = "FAILED", !.error = msg]

\* str(e) of an exception raised by TASK_CALLBACK
ObserverError == "observer_exc"

\* except Exception as e: of operacion_arqueo: status FAILED, error str(e), and
\* handle_error_cleanup when the arqueo window is open; then the finally clause
OpExcept(e) ==
    /\ result' = OpFailed(result, e)
    /\ events' = IF result.sical_is_open
                 THEN Append(events, "handle_error_cleanup")
                 ELSE events
    /\ pc' = "op_return"

\* a plausible slip: the duplicate gate left out
MutAfterPrepareSkipsCheck(datos) == "op_open"

\* finalizar_operacion = datos_arqueo.get('finalizar_operacion', False)
\* if finalizar_operacion: the duplicate check comes first
AfterPrepare(datos) == IF datos.finalizar_operacion THEN "op_dup" ELSE "op_open"

\* detalle = operation_data.get('detalle', {}): the payload under the key
\* 'detalle', and {} when operation has no such key
get_detalle(body) == IF body.kind = "ok" THEN body.detalle ELSE EmptyDetalle

\* TASK_CALLBACK('step', step='Preparing operation data');
\* datos_arqueo = create_arqueo_data(operation_data.get('detalle', {}))
OpPrepare ==
    /\ pc = "op_prepare"
    /\ \/ /\ ObserverRaises(TASK_CALLBACK)
          /\ OpExcept(ObserverError)
          /\ UNCHANGED datos_arqueo
       \/ /\ datos_arqueo' = create_arqueo_data(get_detalle(cur.body))
          /\ pc' = AfterPrepare(datos_arqueo')
          /\ events' = Append(events, "create_arqueo_data")
          /\ UNCHANGED result
    /\ UNCHANGED << cur, task_id, published, raised >>
    /\ UNCHANGED << idx, suma_aplicaciones, entered, reported, query_windows >>
    /\ UNCHANGED brokerVars
    /\ UNCHANGED cbVars
    /\ UNCHANGED guiVars
    /\ UNCHANGED managerVars

\* what the SICAL application does during one duplicate check
DupEnvs ==
    { [at |-> p, n |-> 0] :
        p \in { "no_menu", "no_consulta", "no_filtros_button", "no_filtros",
                "filter_raise", "step_raise", "amount_raise", "none_found",
                "none_found_close_raise", "found_no_element", "found_empty",
                "count_raise" } }
    \cup { [at |-> "found_value", n |-> k] : k \in 0..MaxCount }

\* a plausible slip: every match counted as "at least one found"
MutSimilarAlwaysOne(env) == 1

\* similiar_records_encountered when no error modal shows:
\* int(num_registros) if num_registros else 0, or 1 without the count element
similar_records(env) ==
    CASE env.at = "found_no_element" -> 1
      [] env.at = "found_empty" -> 0
      [] OTHER -> env.n

\* _check_for_duplicates(datos_arqueo, result), from its try: on
check_for_duplicates(datos, r, env) ==
    LET apps == datos.aplicaciones
        fail(msg, q, w) ==
            [result |-> OpFailed(r, msg), queried |-> q, reported |-> NoReport, windows |-> w]
        consulta == {"consulta"}
        both == {"consulta", "filtros"}
        dup(k, rep) ==
            [ result |-> [r EXCEPT !.status = "P_DUPLICATED",
                                   !.similiar_records_encountered = k,
                                   !.error = "Possible duplicate operation found"],
              queried |-> TRUE,
              reported |-> rep,
              windows |-> {} ]
    IN
    CASE env.at = "no_menu" -> fail("Failed to open Consulta window", FALSE, {})
      [] env.at = "no_consulta" -> fail("Consulta window not found", FALSE, {})
      [] env.at = "no_filtros_button" -> fail("Filtros button not found", FALSE, consulta)
      [] env.at = "no_filtros" -> fail("Failed to open Filters window", FALSE, consulta)
      [] env.at = "filter_raise" -> fail("Duplicate check error", FALSE, both)
      [] env.at = "step_raise" -> fail("Duplicate check error: observer_exc", FALSE, both)
      [] OTHER ->
           IF apps = <<>>
           THEN fail("Total aplicaciones calculado == 0", FALSE, both)
           ELSE IF \E k \in 1..Len(apps) : ~ImporteOk(apps[k].importe)
           THEN fail("Duplicate check error", FALSE, both)
           ELSE CASE env.at = "amount_raise" -> fail("Duplicate check error", FALSE, both)
                  [] env.at = "none_found" ->
                       [ result |-> [r EXCEPT !.similiar_records_encountered = 0],
                         queried |-> TRUE,
                         reported |-> [kind |-> "no_records", n |-> 0],
                         windows |-> {} ]
                  [] env.at = "none_found_close_raise" ->
                       [ result |-> OpFailed(r, "Duplicate check error"),
                         queried |-> TRUE,
                         reported |-> [kind |-> "no_records", n |-> 0],
                         windows |-> both ]
                  [] env.at = "found_no_element" ->
                       dup(similar_records(env), [kind |-> "exists", n |-> 0])
                  [] env.at = "found_empty" ->
                       dup(similar_records(env), [kind |-> "empty", n |-> 0])
                  [] env.at = "found_value" ->
                       dup(similar_records(env), [kind |-> "count", n |-> env.n])
                  [] OTHER -> fail("Duplicate check error", TRUE, both)

\* a plausible slip: only a duplicate found stops the operation
MutGateOnlyDuplicated(status) == status = "P_DUPLICATED"

\* the two early returns after the duplicate check: on P_DUPLICATED and on FAILED
DupGateReturns(status) == status \in {"P_DUPLICATED", "FAILED"}

\* if finalizar_operacion: result = _check_for_duplicates(datos_arqueo, result);
\* return on P_DUPLICATED or FAILED, else result.status = PENDING
OpDupCheck ==
    /\ pc = "op_dup"
    /\ \/ /\ ObserverRaises(TASK_CALLBACK)
          /\ result' = OpFailed(result, ObserverError)
          /\ events' = Append(events, "check_for_duplicates")
          /\ pc' = "op_return"
          /\ UNCHANGED << reported, query_windows >>
       \/ \E env \in DupEnvs :
            LET out == check_for_duplicates(datos_arqueo, result, env) IN
            /\ env.at = "step_raise" => ObserverRaises(TASK_CALLBACK)
            /\ events' = IF out.queried
                         THEN events \o << "check_for_duplicates", "query" >>
                         ELSE Append(events, "check_for_duplicates")
            /\ reported' = out.reported
            /\ query_windows' = out.windows
            /\ IF DupGateReturns(out.result.status)
               THEN /\ result' = out.result
                    /\ pc' = "op_return"
               ELSE /\ result' = [out.result EXCEPT !.status = "PENDING"]
                    /\ pc' = "op_open"
    /\ UNCHANGED << cur, task_id, published, raised >>
    /\ UNCHANGED << datos_arqueo, idx, suma_aplicaciones, entered >>
    /\ UNCHANGED brokerVars
    /\ UNCHANGED cbVars
    /\ UNCHANGED guiVars
    /\ UNCHANGED managerVars

\* a plausible slip: the session flag raised before the window is known to be open
MutOpenFlagFirst(r) ==
    [OpFailed(r, "Failed to open SICAL window") EXCEPT !.sical_is_open = TRUE]

\* if not setup_sical_window(window_manager): status FAILED, the error set, return
open_failed(r) == OpFailed(r, "Failed to open SICAL window")

\* TASK_CALLBACK('step', step='Opening SICAL window');
\* if not setup_sical_window(window_manager): FAILED, return
\* else: sical_is_open = True, status = IN_PROGRESS
OpOpen ==
    /\ pc = "op_open"
    /\ \/ /\ ObserverRaises(TASK_CALLBACK)
          /\ OpExcept(ObserverError)
       \/ \E opened \in {"ok", "false", "raise"} :
            /\ events' = Append(events, "setup_sical_window")
            /\ CASE opened = "ok" ->
                     /\ result' = [result EXCEPT !.sical_is_open = TRUE,
                                                 !.status = "IN_PROGRESS"]
                     /\ pc' = "op_process"
                 [] opened = "false" ->
                     /\ result' = open_failed(result)
                     /\ pc' = "op_return"
                 [] OTHER ->
                     /\ result' = OpFailed(result, "exc")
                     /\ pc' = "op_return"
    /\ UNCHANGED << cur, task_id, published, raised >>
    /\ UNCHANGED << datos_arqueo, idx, suma_aplicaciones, entered, reported, query_windows >>
    /\ UNCHANGED brokerVars
    /\ UNCHANGED cbVars
    /\ UNCHANGED guiVars
    /\ UNCHANGED managerVars

\* TASK_CALLBACK('step', step='Processing arqueo operation');
\* process_arqueo_operation: the two form-initialising clicks
OpProcess ==
    /\ pc = "op_process"
    /\ \/ /\ ObserverRaises(TASK_CALLBACK)
          /\ OpExcept(ObserverError)
       \/ /\ events' = Append(events, "process_arqueo_operation")
          /\ result' = OpFailed(result, "exc")
          /\ pc' = "op_return"
       \/ /\ events' = Append(events, "process_arqueo_operation")
          /\ pc' = "op_fill"
          /\ UNCHANGED result
    /\ UNCHANGED << cur, task_id, published, raised >>
    /\ UNCHANGED << datos_arqueo, idx, suma_aplicaciones, entered, reported, query_windows >>
    /\ UNCHANGED brokerVars
    /\ UNCHANGED cbVars
    /\ UNCHANGED guiVars
    /\ UNCHANGED managerVars

\* except Exception as e: of fill_main_panel_data
FillExcept(e) ==
    /\ result' = OpFailed(result, e)
    /\ pc' = "op_after_fill"

\* fill_main_panel_data: form reset and header fields, suma_aplicaciones = 0
OpFillHeader ==
    /\ pc = "op_fill"
    /\ events' = Append(events, "fill_main_panel_data")
    /\ \/ /\ FillExcept("Validation error")
          /\ UNCHANGED << idx, suma_aplicaciones >>
       \/ /\ idx' = 1
          /\ suma_aplicaciones' = 0
          /\ pc' = "op_fill_item"
          /\ UNCHANGED result
    /\ UNCHANGED << cur, task_id, published, raised >>
    /\ UNCHANGED << datos_arqueo, entered, reported, query_windows >>
    /\ UNCHANGED brokerVars
    /\ UNCHANGED cbVars
    /\ UNCHANGED guiVars
    /\ UNCHANGED managerVars

\* a plausible slip: the income branch taken for every nature that is not '4'
MutFillElseIncome(naturaleza, aplicacion, i, ent, suma) ==
    LET importe == ImporteValue(aplicacion.importe) IN
    IF importe > 0 /\ (naturaleza # "4" \/ ~Truthy(aplicacion.contraido))
    THEN [entered |-> Append(ent, i), suma |-> suma + importe]
    ELSE [entered |-> ent, suma |-> suma]

\* a plausible slip: the income path stopping after the first entered item too
MutFillFirstOnly(naturaleza, aplicacion, i, ent, suma) ==
    IF ImporteValue(aplicacion.importe) > 0 /\ naturaleza \in {"4", "5"} /\ ent = <<>>
    THEN [entered |-> Append(ent, i), suma |-> suma + ImporteValue(aplicacion.importe)]
    ELSE [entered |-> ent, suma |-> suma]

\* the body of "for i, aplicacion in enumerate(datos_arqueo['aplicaciones'])" for
\* one item whose importe parses: what is committed and summed
fill_line_item(naturaleza, aplicacion, i, ent, suma) ==
    LET importe == ImporteValue(aplicacion.importe) IN
    IF importe > 0
    THEN IF naturaleza = "4"
         THEN IF ~Truthy(aplicacion.contraido)
              THEN [entered |-> Append(ent, i), suma |-> suma + importe]
              ELSE [entered |-> ent, suma |-> suma]
         ELSE IF naturaleza = "5"
              THEN [entered |-> Append(ent, i), suma |-> suma + importe]
              ELSE [entered |-> ent, suma |-> suma]
    ELSE [entered |-> ent, suma |-> suma]

\* one iteration of the line item loop of fill_main_panel_data
OpFillItem ==
    /\ pc = "op_fill_item"
    /\ idx <= Len(datos_arqueo.aplicaciones)
    /\ LET aplicacion == datos_arqueo.aplicaciones[idx] IN
       \/ /\ ObserverRaises(TASK_CALLBACK)
          /\ FillExcept("Validation error: observer_exc")
          /\ UNCHANGED << idx, suma_aplicaciones, entered >>
       \/ /\ ~ImporteOk(aplicacion.importe)
          /\ FillExcept("Validation error")
          /\ UNCHANGED << idx, suma_aplicaciones, entered >>
       \/ /\ ImporteOk(aplicacion.importe)
          /\ ImporteValue(aplicacion.importe) > 0
          /\ FillExcept("Validation error")
          /\ UNCHANGED << idx, suma_aplicaciones, entered >>
       \/ /\ ImporteOk(aplicacion.importe)
          /\ LET out == fill_line_item(datos_arqueo.naturaleza, aplicacion, idx,
                                       entered, suma_aplicaciones) IN
             /\ entered' = out.entered
             /\ suma_aplicaciones' = out.suma
          /\ idx' = idx + 1
          /\ UNCHANGED << pc, result >>
    /\ UNCHANGED << cur, task_id, published, raised, events >>
    /\ UNCHANGED << datos_arqueo, reported, query_windows >>
    /\ UNCHANGED brokerVars
    /\ UNCHANGED cbVars
    /\ UNCHANGED guiVars
    /\ UNCHANGED managerVars

\* after the loop: read the total shown by the window (the window adds up what
\* was committed), result.suma_aplicaciones = suma_aplicaciones
OpFillTotal ==
    /\ pc = "op_fill_item"
    /\ idx > Len(datos_arqueo.aplicaciones)
    /\ \/ FillExcept("Validation error")
       \/ /\ result' = [result EXCEPT !.total_operacion = Some(suma_aplicaciones),
                                      !.suma_aplicaciones = Some(suma_aplicaciones)]
          /\ pc' = "op_after_fill"
    /\ UNCHANGED << cur, task_id, published, raised, events >>
    /\ UNCHANGED << datos_arqueo, idx, suma_aplicaciones, entered, reported, query_windows >>
    /\ UNCHANGED brokerVars
    /\ UNCHANGED cbVars
    /\ UNCHANGED guiVars
    /\ UNCHANGED managerVars

\* a plausible slip: the status left as the fill found it
MutAfterFillKeeps(status) == status

\* a plausible slip: the status set to COMPLETED whatever the fill left
MutAfterFillCompleted(status) == "COMPLETED"

\* if result.status != OperationStatus.FAILED: result.status = COMPLETED
after_fill_status(status) == IF status # "FAILED" THEN "COMPLETED" ELSE status

\* a plausible slip: the finalize flag not consulted before validating
MutValidateAlways(status, finalizar_operacion) ==
    IF status = "COMPLETED" THEN "op_validate" ELSE "op_return"

\* if result.status == OperationStatus.COMPLETED and finalizar_operacion: the
\* validate and print phase, else the function returns
after_fill_next(status, finalizar_operacion) ==
    IF status = "COMPLETED" /\ finalizar_operacion THEN "op_validate" ELSE "op_return"

\* process_arqueo_operation after the fill:
\* if result.status != FAILED: result.status = COMPLETED
\* if result.status == COMPLETED and finalizar_operacion: validate
OpAfterFill ==
    /\ pc = "op_after_fill"
    /\ result' = [result EXCEPT !.status = after_fill_status(result.status)]
    /\ pc' = after_fill_next(result'.status, datos_arqueo.finalizar_operacion)
    /\ UNCHANGED << cur, task_id, published, raised, events >>
    /\ UNCHANGED << datos_arqueo, idx, suma_aplicaciones, entered, reported, query_windows >>
    /\ UNCHANGED brokerVars
    /\ UNCHANGED cbVars
    /\ UNCHANGED guiVars
    /\ UNCHANGED managerVars

\* a plausible slip: the operation number read before the clicks are known to
\* have succeeded
MutValidateNumberFirst(r, ok) ==
    IF ok THEN [r EXCEPT !.num_operacion = "OP1"]
    ELSE [OpFailed(r, "Validation error") EXCEPT !.num_operacion = "OP1"]

\* validate_operation(ventana_arqueo, result) given whether the window obeyed
validate_operation(r, ok) ==
    IF ok THEN [r EXCEPT !.num_operacion = "OP1"]
    ELSE OpFailed(r, "Validation error")

\* a plausible slip: a print failure reported like any other failure
MutPrintFailureFails(r, ok) ==
    IF ok THEN [r EXCEPT !.status = "COMPLETED"]
    ELSE [r EXCEPT !.status = "FAILED", !.error = "Print document error"]

\* print_operation_document(ventana_arqueo, result) given whether the viewer obeyed
print_operation_document(r, ok) ==
    IF ok THEN [r EXCEPT !.status = "COMPLETED"]
    ELSE [r EXCEPT !.status = "INCOMPLETED", !.error = "Print document error"]

\* TASK_CALLBACK('step', step='Validating operation');
\* result = validate_operation(ventana_arqueo, result)
OpValidate ==
    /\ pc = "op_validate"
    /\ \/ /\ ObserverRaises(TASK_CALLBACK)
          /\ result' = OpFailed(result, ObserverError)
          /\ pc' = "op_return"
          /\ UNCHANGED events
       \/ \E ok \in BOOLEAN :
            /\ result' = validate_operation(result, ok)
            /\ events' = IF ok
                         THEN Append(events, "validate_operation")
                         ELSE events \o << "validate_operation", "validate_exception" >>
            /\ pc' = IF result'.status = "COMPLETED" THEN "op_print" ELSE "op_return"
    /\ UNCHANGED << cur, task_id, published, raised >>
    /\ UNCHANGED << datos_arqueo, idx, suma_aplicaciones, entered, reported, query_windows >>
    /\ UNCHANGED brokerVars
    /\ UNCHANGED cbVars
    /\ UNCHANGED guiVars
    /\ UNCHANGED managerVars

\* TASK_CALLBACK('step', step='Printing operation document');
\* result = print_operation_document(ventana_arqueo, result)
OpPrint ==
    /\ pc = "op_print"
    /\ \/ /\ ObserverRaises(TASK_CALLBACK)
          /\ result' = OpFailed(result, ObserverError)
          /\ UNCHANGED events
       \/ \E ok \in BOOLEAN :
            /\ result' = print_operation_document(result, ok)
            /\ events' = IF ok
                         THEN Append(events, "print_operation_document")
                         ELSE events \o << "print_operation_document", "print_exception" >>
    /\ pc' = "op_return"
    /\ UNCHANGED << cur, task_id, published, raised >>
    /\ UNCHANGED << datos_arqueo, idx, suma_aplicaciones, entered, reported, query_windows >>
    /\ UNCHANGED brokerVars
    /\ UNCHANGED cbVars
    /\ UNCHANGED guiVars
    /\ UNCHANGED managerVars

\* a plausible slip: the timing recorded at the end of the try block, which an
\* early return or an exception never reaches
MutTimingOnlyOnCompletion(r) ==
    IF r.status \in {"COMPLETED", "INCOMPLETED"}
    THEN [r EXCEPT !.end_time = TRUE, !.duration = TRUE]
    ELSE r

\* finally: result.end_time = str(end_time); result.duration = str(end_time - init_time)
finally_clause(r) == [r EXCEPT !.end_time = TRUE, !.duration = TRUE]

\* finally: result.end_time, result.duration; return result
OpReturn ==
    /\ pc = "op_return"
    /\ result' = finally_clause(result)
    /\ pc' = "publish"
    /\ UNCHANGED << cur, task_id, published, raised, events >>
    /\ UNCHANGED << datos_arqueo, idx, suma_aplicaciones, entered, reported, query_windows >>
    /\ UNCHANGED brokerVars
    /\ UNCHANGED cbVars
    /\ UNCHANGED guiVars
    /\ UNCHANGED managerVars

(* -------------------------------------- ArqueoConsumer.callback, after the call *)
\* a plausible slip: the RPC pattern, answering to properties.reply_to
MutReplyToRoutingKey(properties) ==
    IF properties.reply_to # None THEN properties.reply_to ELSE ResultQueue

\* routing_key='sical_results'  # Fixed result queue
ResponseRoutingKey(properties) == ResultQueue

\* response = {'status': result.status.value, 'operation_id': task_id,
\*             'result': dataclasses.asdict(result)} with
\* properties=pika.BasicProperties(correlation_id=properties.correlation_id)
build_response(properties, tid, r) ==
    [ routing_key |-> ResponseRoutingKey(properties),
      correlation_id |-> properties.correlation_id,
      status |-> r.status,
      operation_id |-> tid,
      error |-> r.error ]

\* a plausible slip: only results that did not fail are published
MutPublishSkipsFailed ==
    /\ pc = "publish"
    /\ IF result.status = "FAILED"
       THEN /\ pc' = "ack"
            /\ UNCHANGED << events, published, raised >>
       ELSE /\ events' = Append(events, "basic_publish")
            /\ published' = [ routing_key |-> ResultQueue,
                              correlation_id |-> cur.properties.correlation_id,
                              status |-> result.status,
                              operation_id |-> task_id,
                              error |-> result.error ]
            /\ pc' = "ack"
            /\ raised' = raised
    /\ UNCHANGED << cur, task_id >>
    /\ UNCHANGED opVars
    /\ UNCHANGED brokerVars
    /\ UNCHANGED cbVars
    /\ UNCHANGED guiVars
    /\ UNCHANGED managerVars

\* ch.basic_publish(exchange='', routing_key='sical_results', ...)
Publish ==
    /\ pc = "publish"
    /\ events' = Append(events, "basic_publish")
    /\ \/ /\ published' = build_response(cur.properties, task_id, result)
          /\ pc' = "ack"
          /\ raised' = raised
       \/ /\ pc' = "except"
          /\ raised' = "publish"
          /\ UNCHANGED published
    /\ UNCHANGED << cur, task_id >>
    /\ UNCHANGED opVars
    /\ UNCHANGED brokerVars
    /\ UNCHANGED cbVars
    /\ UNCHANGED guiVars
    /\ UNCHANGED managerVars

\* a plausible slip: an unfavourable status treated as a processing error
MutAckOnlyFavourable(r) == r.status \in {"COMPLETED"}

\* ch.basic_ack(delivery_tag=method.delivery_tag), whatever result.status is
AckResult(r) == TRUE

\* ch.basic_ack(delivery_tag=method.delivery_tag)
Ack ==
    /\ pc = "ack"
    /\ IF AckResult(result)
       THEN /\ events' = Append(events, "basic_ack")
            /\ \/ /\ unacked' = unacked \ {cur.tag}
                  /\ pc' = "task_done"
                  /\ raised' = raised
               \/ /\ pc' = "except"
                  /\ raised' = "ack"
                  /\ UNCHANGED unacked
       ELSE /\ pc' = "except"
            /\ raised' = "status"
            /\ UNCHANGED << events, unacked >>
    /\ UNCHANGED << cur, task_id, published, nextTag, buffer >>
    /\ UNCHANGED opVars
    /\ UNCHANGED cbVars
    /\ UNCHANGED guiVars
    /\ UNCHANGED managerVars

\* if result.status in (COMPLETED, INCOMPLETED): 'task_completed' else 'task_failed'
ClosingEvent(r) ==
    IF r.status \in {"COMPLETED", "INCOMPLETED"} THEN "task_completed" ELSE "task_failed"

\* if STATUS_CALLBACK: STATUS_CALLBACK(<closing event>, task_id=task_id); return
NotifyDone ==
    /\ pc = "task_done"
    /\ \/ /\ ~STATUS_CALLBACK
          /\ pc' = "done"
          /\ UNCHANGED << events, raised, stats, current_task >>
       \/ /\ STATUS_CALLBACK
          /\ events' = Append(events, ClosingEvent(result))
          /\ StatusCallbackRuns(ClosingEvent(result))
          /\ pc' = "done"
          /\ raised' = raised
       \/ /\ ObserverRaises(STATUS_CALLBACK)
          /\ events' = Append(events, ClosingEvent(result))
          /\ pc' = "except"
          /\ raised' = "observer"
          /\ UNCHANGED << stats, current_task >>
    /\ UNCHANGED << cur, task_id, published >>
    /\ UNCHANGED opVars
    /\ UNCHANGED brokerVars
    /\ UNCHANGED cbVars
    /\ UNCHANGED guiVars
    /\ UNCHANGED << data_lock, callers, calls >>

\* except Exception as e: ch.basic_nack(delivery_tag=method.delivery_tag).
\* A nack requeues the message. If basic_nack itself raises, the exception
\* leaves callback and start_consuming: stop_consuming closes the connection
\* (the broker then requeues what was unacknowledged) and the consumer ends.
Nack ==
    /\ pc = "except"
    /\ events' = Append(events, "basic_nack")
    /\ \/ /\ unacked' = unacked \ {cur.tag}
          /\ pc' = "except_notify"
          /\ UNCHANGED buffer
       \/ /\ unacked' = {}
          /\ buffer' = <<>>
          /\ pc' = "stopped"
    /\ UNCHANGED << cur, task_id, published, raised, nextTag >>
    /\ UNCHANGED opVars
    /\ UNCHANGED cbVars
    /\ UNCHANGED guiVars
    /\ UNCHANGED managerVars

\* if STATUS_CALLBACK and task_id: STATUS_CALLBACK('task_failed', task_id=task_id)
NotifyFailed ==
    /\ pc = "except_notify"
    /\ \/ /\ ~(STATUS_CALLBACK /\ task_id # None)
          /\ pc' = "done"
          /\ UNCHANGED << events, unacked, buffer, stats, current_task >>
       \/ /\ STATUS_CALLBACK /\ task_id # None
          /\ events' = Append(events, "task_failed")
          /\ StatusCallbackRuns("task_failed")
          /\ pc' = "done"
          /\ UNCHANGED << unacked, buffer >>
       \/ /\ ObserverRaises(STATUS_CALLBACK) /\ task_id # None
          /\ events' = Append(events, "task_failed")
          /\ unacked' = {}
          /\ buffer' = <<>>
          /\ pc' = "stopped"
          /\ UNCHANGED << stats, current_task >>
    /\ UNCHANGED << cur, task_id, published, raised, nextTag >>
    /\ UNCHANGED opVars
    /\ UNCHANGED cbVars
    /\ UNCHANGED guiVars
    /\ UNCHANGED << data_lock, callers, calls >>

\* callback returns to pika's loop: its locals and the operation's are gone
CallbackReturn ==
    /\ pc = "done"
    /\ pc' = "idle"
    /\ cur' = NoDelivery
    /\ task_id' = None
    /\ events' = <<>>
    /\ published' = NoResponse
    /\ raised' = "none"
    /\ datos_arqueo' = NoDatos
    /\ result' = NoResult
    /\ idx' = 0
    /\ suma_aplicaciones' = 0
    /\ entered' = <<>>
    /\ reported' = NoReport
    /\ query_windows' = {}
    /\ UNCHANGED brokerVars
    /\ UNCHANGED cbVars
    /\ UNCHANGED guiVars
    /\ UNCHANGED managerVars

(* ------------------------------------------- ArqueosGUI: the service threads *)
\* The GUI starts and stops the consumer on a background thread. Here a
\* consumer thread is followed only as far as where it is: waiting in
\* start_consuming, in callback before the orchestrator call, inside
\* operacion_arqueo, in callback after it, or ended. start_service and
\* stop_service run on the Tk main thread, one at a time, at any moment.
NewThread == [at |-> "start_consuming", connection |-> "open", tag |-> 0]

\* threading.Thread.is_alive()
IsAlive(t) == threads[t].at # "dead"

\* a plausible slip: asking the status manager instead of the thread
MutAskServiceStatus == service_running

\* if self.consumer_thread and self.consumer_thread.is_alive(): return
AlreadyRunning == consumer_thread # 0 /\ IsAlive(consumer_thread)

\* if not self.consumer or not self.consumer_thread or
\*    not self.consumer_thread.is_alive(): return
NotRunning == IF consumer_thread = 0 THEN TRUE ELSE ~IsAlive(consumer_thread)

\* ArqueosGUI.start_service
start_service ==
    /\ \/ /\ AlreadyRunning
          /\ service_log' = "Service is already running"
          /\ UNCHANGED << consumer_thread, threads, service_running, start_button,
                          stop_button, cbVars >>
       \/ /\ ~AlreadyRunning
          /\ Len(threads) < MaxStarts
          /\ service_log' = "Starting Arqueos Robot service..."
          /\ service_running' = TRUE
          /\ STATUS_CALLBACK' = TRUE
          /\ TASK_CALLBACK' = TRUE
          /\ gui_attached' = TRUE
          /\ threads' = Append(threads, NewThread)
          /\ consumer_thread' = Len(threads) + 1
          /\ start_button' = "disabled"
          /\ stop_button' = "normal"
       \/ /\ ~AlreadyRunning
          /\ service_log' = "Starting Arqueos Robot service..."
          /\ service_running' = TRUE
          /\ STATUS_CALLBACK' = TRUE
          /\ TASK_CALLBACK' = TRUE
          /\ gui_attached' = TRUE
          /\ UNCHANGED << consumer_thread, threads, start_button, stop_button >>
    /\ UNCHANGED << nextTag, unacked >>
    /\ UNCHANGED consumerVars
    /\ UNCHANGED managerVars

\* ArqueosGUI.stop_service: consumer.stop() is channel.stop_consuming() and
\* connection.close(), called from the Tk thread; it does not wait for the
\* consumer thread. The broker takes back what the closed connection had not
\* acknowledged.
stop_service ==
    /\ \/ /\ NotRunning
          /\ service_log' = "Service is not running"
          /\ UNCHANGED << threads, service_running, start_button, stop_button,
                          unacked >>
       \/ /\ ~NotRunning
          /\ service_log' = "Stopping Arqueos Robot service..."
          /\ threads' = [threads EXCEPT ![consumer_thread].connection = "closed"]
          /\ unacked' = unacked \ {threads[consumer_thread].tag}
          /\ service_running' = FALSE
          /\ start_button' = "normal"
          /\ stop_button' = "disabled"
    /\ UNCHANGED << consumer_thread, cbVars, nextTag >>
    /\ UNCHANGED consumerVars
    /\ UNCHANGED managerVars

\* the broker delivers a message to an open connection with no unacknowledged
\* delivery (prefetch_count) and pika calls callback on the thread that waits
\* in start_consuming
ConsumerCallback ==
    /\ nextTag <= MaxDeliveries
    /\ \E t \in 1..Len(threads) :
          /\ threads[t].at = "start_consuming"
          /\ threads[t].connection = "open"
          /\ threads' = [threads EXCEPT ![t].at = "callback", ![t].tag = nextTag]
    /\ unacked' = unacked \cup {nextTag}
    /\ nextTag' = nextTag + 1
    /\ UNCHANGED << consumer_thread, service_running, service_log, start_button,
                    stop_button, cbVars >>
    /\ UNCHANGED consumerVars
    /\ UNCHANGED managerVars

\* callback up to result = operacion_arqueo(...): the call, or an exception
\* before it
ConsumerInvoke ==
    /\ \E t \in 1..Len(threads) :
          /\ threads[t].at = "callback"
          /\ \E to \in {"operacion_arqueo", "respond"} :
                threads' = [threads EXCEPT ![t].at = to]
    /\ UNCHANGED << consumer_thread, service_running, service_log, start_button,
                    stop_button, cbVars, nextTag, unacked >>
    /\ UNCHANGED consumerVars
    /\ UNCHANGED managerVars

\* operacion_arqueo returns its Result
ConsumerOperationReturn ==
    /\ \E t \in 1..Len(threads) :
          /\ threads[t].at = "operacion_arqueo"
          /\ threads' = [threads EXCEPT ![t].at = "respond"]
    /\ UNCHANGED << consumer_thread, service_running, service_log, start_button,
                    stop_button, cbVars, nextTag, unacked >>
    /\ UNCHANGED consumerVars
    /\ UNCHANGED managerVars

\* callback returns to start_consuming after the publish and the ack or the
\* nack; or an exception leaves callback (basic_nack on a closed connection):
\* start_consuming calls stop_consuming and raises, run_consumer logs it, sets
\* service_running False and the thread ends. Acked, nacked or given back by
\* the closed connection, the delivery is no longer unacknowledged.
ConsumerCallbackReturn ==
    /\ \E t \in 1..Len(threads) :
          /\ threads[t].at = "respond"
          /\ unacked' = unacked \ {threads[t].tag}
          /\ \/ /\ threads' = [threads EXCEPT ![t].at = "start_consuming",
                                                ![t].tag = 0]
                /\ UNCHANGED service_running
             \/ /\ threads' = [threads EXCEPT ![t] = [at |-> "dead",
                                                       connection |-> "closed",
                                                       tag |-> 0]]
                /\ service_running' = FALSE
    /\ UNCHANGED << consumer_thread, service_log, start_button, stop_button, cbVars,
                    nextTag >>
    /\ UNCHANGED consumerVars
    /\ UNCHANGED managerVars

\* start_consuming returns once stop_consuming was called: the thread ends
ConsumerStopped ==
    /\ \E t \in 1..Len(threads) :
          /\ threads[t].at = "start_consuming"
          /\ threads[t].connection = "closed"
          /\ threads' = [threads EXCEPT ![t].at = "dead"]
    /\ UNCHANGED << consumer_thread, service_running, service_log, start_button,
                    stop_button, cbVars, nextTag, unacked >>
    /\ UNCHANGED consumerVars
    /\ UNCHANGED managerVars

\* start_consuming raises (connection lost): stop_consuming, raise;
\* run_consumer sets service_running False and the thread ends
ConsumerError ==
    /\ \E t \in 1..Len(threads) :
          /\ threads[t].at = "start_consuming"
          /\ threads[t].connection = "open"
          /\ threads' = [threads EXCEPT ![t].at = "dead", ![t].connection = "closed"]
    /\ service_running' = FALSE
    /\ UNCHANGED << consumer_thread, service_log, start_button, stop_button, cbVars,
                    nextTag, unacked >>
    /\ UNCHANGED consumerVars
    /\ UNCHANGED managerVars

(* ---------------------------------------------------------- specification *)
Next ==
    \/ Deliver
    \/ CallbackBegin
    \/ Parse
    \/ NotifyReceived
    \/ NotifyStarted
    \/ Invoke
    \/ OpPrepare
    \/ OpDupCheck
    \/ OpOpen
    \/ OpProcess
    \/ OpFillHeader
    \/ OpFillItem
    \/ OpFillTotal
    \/ OpAfterFill
    \/ OpValidate
    \/ OpPrint
    \/ OpReturn
    \/ Publish
    \/ Ack
    \/ NotifyDone
    \/ Nack
    \/ NotifyFailed
    \/ CallbackReturn

Spec == Init /\ [][Next]_vars

\* the GUI as constructed: no observer set, no message delivered
GuiStart ==
    /\ GuiInit
    /\ STATUS_CALLBACK = FALSE
    /\ TASK_CALLBACK = FALSE
    /\ gui_attached = FALSE
    /\ ManagerInit
    /\ nextTag = 1
    /\ unacked = {}
    /\ buffer = <<>>
    /\ pc = "idle"
    /\ cur = NoDelivery
    /\ task_id = None
    /\ datos_arqueo = NoDatos
    /\ result = NoResult
    /\ idx = 0
    /\ suma_aplicaciones = 0
    /\ entered = <<>>
    /\ events = <<>>
    /\ published = NoResponse
    /\ raised = "none"
    /\ reported = NoReport
    /\ query_windows = {}

GuiNext ==
    \/ start_service
    \/ stop_service
    \/ ConsumerCallback
    \/ ConsumerInvoke
    \/ ConsumerOperationReturn
    \/ ConsumerCallbackReturn
    \/ ConsumerStopped
    \/ ConsumerError

GuiSpec == GuiStart /\ [][GuiNext]_vars

(* ------------------------------------- the record transformer on its own *)
\* descriptions: blanks and letters, then nothing, the marker, a cut marker,
\* or the marker followed by a blank
Endings == { <<>>, FINALIZE_SUFFIX, <<"_", "F", "I">>, FINALIZE_SUFFIX \o <<" ">> }

WideTextos == { p \o e : p \in SeqsUpTo({" ", "A"}, MaxText), e \in Endings }

TextoSicals ==
    { NoTextoSical,
      [kind |-> "empty", tcargo |-> NoneText],
      [kind |-> "no_tcargo", tcargo |-> NoneText],
      TextoSical(NoneText) }
    \cup { TextoSical(Text(t)) : t \in WideTextos }

\* values of 'contraido' of every JSON type
Contraidos ==
    { CBool(FALSE), CBool(TRUE), CInt(0), CInt(1), CInt(2500001),
      CFloat(0), CFloat(15), CFloat(20), CStr(<<>>), CStr(<<"x">>), CNone }

\* values of 'economica': codes of the table and codes outside it, given as
\* strings and as integers, a code padded with a blank, and the key missing
Economicas ==
    { RawStr(StrOfNat(130)), RawInt(130), RawStr(StrOfNat(45002)),
      RawStr(StrOfNat(999)), RawInt(999), RawStr(<<" ">> \o StrOfNat(130)),
      RawMissing }

TransformItems ==
    { [economica |-> Economica30012, importe |-> RawFloat(10), contraido |-> c] :
        c \in Contraidos }
    \cup { [economica |-> e, importe |-> RawFloat(10), contraido |-> CBool(FALSE)] :
             e \in Economicas }

TransformDetalles ==
    [ naturaleza : {"5"},
      texto_sical : TextoSicals,
      aplicaciones : SeqsUpTo(TransformItems, MaxItems) ]

\* operacion_arqueo called with {tipo, detalle}, detalle any of TransformDetalles
TransformInit ==
    /\ GuiInit
    /\ STATUS_CALLBACK = FALSE
    /\ TASK_CALLBACK = FALSE
    /\ gui_attached = FALSE
    /\ ManagerInit
    /\ nextTag = 1 + 1
    /\ unacked = {1}
    /\ buffer = <<>>
    /\ pc = "transform"
    /\ \E d \in TransformDetalles :
          cur = [tag |-> 1, properties |-> [correlation_id |-> "c1", reply_to |-> None],
                 body |-> [kind |-> "ok", detalle |-> d]]
    /\ task_id = "t1"
    /\ datos_arqueo = NoDatos
    /\ result = NewResult
    /\ idx = 0
    /\ suma_aplicaciones = 0
    /\ entered = <<>>
    /\ events = <<>>
    /\ published = NoResponse
    /\ raised = "none"
    /\ reported = NoReport
    /\ query_windows = {}

\* datos_arqueo = create_arqueo_data(detalle)
TransformRecord ==
    /\ pc = "transform"
    /\ datos_arqueo' = create_arqueo_data(get_detalle(cur.body))
    /\ pc' = "transformed"
    /\ UNCHANGED << cur, task_id, result, idx, suma_aplicaciones, entered, events,
                    published, raised, reported, query_windows >>
    /\ UNCHANGED brokerVars
    /\ UNCHANGED cbVars
    /\ UNCHANGED guiVars
    /\ UNCHANGED managerVars

TransformNext == TransformRecord

TransformSpec == TransformInit /\ [][TransformNext]_vars

(* ------------------------------------- StatusManager: the calling threads *)
\* Threads call the four methods at any moment; a call takes _data_lock, runs
\* its statements one at a time and releases the lock.
programVars == << cbVars, nextTag, unacked, consumerVars, guiVars >>

\* a thread enters a method: with self._data_lock: is reached
ManagerCall ==
    /\ calls < MaxCalls
    /\ \E t \in Threads, c \in MethodCalls :
          /\ callers[t].at = "idle"
          /\ callers' = [callers EXCEPT ![t] =
                           [at |-> "acquire", method |-> c.method,
                            task_id |-> c.task_id, success |-> c.success, k |-> 1]]
    /\ calls' = calls + 1
    /\ UNCHANGED << stats, current_task, data_lock >>
    /\ UNCHANGED programVars

\* with self._data_lock: __enter__
ManagerAcquire ==
    /\ \E t \in Threads :
          /\ callers[t].at = "acquire"
          /\ LockFree(data_lock)
          /\ data_lock' = t
          /\ callers' = [callers EXCEPT ![t].at = "body"]
    /\ UNCHANGED << stats, current_task, calls >>
    /\ UNCHANGED programVars

\* one statement of the method body
ManagerStatement ==
    /\ \E t \in Threads :
          LET c == callers[t]
              m == [stats |-> stats, current_task |-> current_task]
              next == Jump(c, m, c.k)
              out == Statement(c, m, c.k)
          IN  /\ c.at = "body"
              /\ stats' = out.stats
              /\ current_task' = out.current_task
              /\ callers' = [callers EXCEPT ![t] =
                               IF next > LastStatement(c.method)
                               THEN [c EXCEPT !.at = "release"]
                               ELSE [c EXCEPT !.k = next]]
    /\ UNCHANGED << data_lock, calls >>
    /\ UNCHANGED programVars

\* with self._data_lock: __exit__, and the method returns
ManagerRelease ==
    /\ \E t \in Threads :
          /\ callers[t].at = "release"
          /\ data_lock' = 0
          /\ callers' = [callers EXCEPT ![t] = IdleCaller]
    /\ UNCHANGED << stats, current_task, calls >>
    /\ UNCHANGED programVars

ManagerNext ==
    \/ ManagerCall
    \/ ManagerAcquire
    \/ ManagerStatement
    \/ ManagerRelease

ManagerSpec == GuiStart /\ [][ManagerNext]_vars

(* ------------------------- the consumer observed by the GUI's status manager *)
\* start_service has reset the statistics and set the GUI's callbacks as the
\* observers; the consumer thread then handles deliveries
StatusInit ==
    /\ GuiInit
    /\ STATUS_CALLBACK = TRUE
    /\ TASK_CALLBACK = TRUE
    /\ gui_attached = TRUE
    /\ ManagerInit
    /\ nextTag = 1
    /\ unacked = {}
    /\ buffer = <<>>
    /\ pc = "idle"
    /\ cur = NoDelivery
    /\ task_id = None
    /\ datos_arqueo = NoDatos
    /\ result = NoResult
    /\ idx = 0
    /\ suma_aplicaciones = 0
    /\ entered = <<>>
    /\ events = <<>>
    /\ published = NoResponse
    /\ raised = "none"
    /\ reported = NoReport
    /\ query_windows = {}

\* ArqueosGUI.clear_stats, on the Tk thread: status_manager.reset_stats()
clear_stats ==
    /\ LockFree(data_lock)
    /\ LET m == RunMethod([method |-> "reset_stats", task_id |-> None, success |-> FALSE],
                          [stats |-> stats, current_task |-> current_task]) IN
       /\ stats' = m.stats
       /\ current_task' = m.current_task
    /\ UNCHANGED << data_lock, callers, calls >>
    /\ UNCHANGED programVars

StatusNext ==
    \/ Next
    \/ clear_stats

StatusSpec == StatusInit /\ [][StatusNext]_vars

(* ------------------------------------------------------------ properties *)
Called(e) == \E k \in 1..Len(events) : events[k] = e

\* position of the first call of e, 0 when it was not called
Pos(e) == IF Called(e) THEN CHOOSE k \in 1..Len(events) :
                              events[k] = e /\ \A j \in 1..(k - 1) : events[j] # e
          ELSE 0

\* callback is handling a delivery, or has just finished handling it
Handling == cur.tag # 0

\* callback has returned, or an exception has left it
Done == Handling /\ pc \in {"done", "stopped"}

\* operacion_arqueo returned a Result: parsing and invocation did not raise
OrchestratorReturned == Handling /\ result.end_time

Unfavourable == {"FAILED", "P_DUPLICATED", "INCOMPLETED"}

\* the steps that write to the arqueo window
SessionSteps == { "setup_sical_window", "process_arqueo_operation",
                  "fill_main_panel_data", "validate_operation",
                  "print_operation_document" }

\* C1: callback acknowledges a delivery if and only if parsing and invoking the
\* orchestrator did not raise, and negatively-acknowledges in every other case;
\* a failure after the orchestrator returned does not lead to a nack.
C1_AckIffParsedAndInvoked ==
    (Handling /\ pc = "done") =>
        /\ Called("basic_ack") <=> OrchestratorReturned
        /\ Called("basic_nack") <=> ~OrchestratorReturned

C3_UnparsableIsNackedOnly ==
    (Handling /\ cur.body.kind = "bad_json") =>
        /\ ~Called("basic_ack")
        /\ ~Called("operacion_arqueo")
        /\ ~Called("basic_publish")
        /\ published = NoResponse
        /\ pc \in {"except_notify", "done", "stopped"} => Called("basic_nack")

C3_Witness ==
    /\ Done
    /\ cur.body.kind = "bad_json"
    /\ Called("basic_nack")

\* C4 as claimed: for every received message a Result is published, also when
\* parsing or invocation raised; a nacked message still has a published Result
\* with a non-success status.
C4_AlwaysPublishes ==
    Done =>
        /\ Called("basic_publish")
        /\ Called("basic_nack") =>
              /\ published # NoResponse
              /\ published.status # "COMPLETED"

\* C4 as amended: a Result is published exactly for the messages whose
\* orchestrator call returned; a message that raised before that (unparsable
\* body, missing operation, observer) is nacked with no publish attempt.
C4_PublishesIffInvoked ==
    /\ Called("basic_publish") => OrchestratorReturned
    /\ Done =>
          /\ OrchestratorReturned => Called("basic_publish")
          /\ ~OrchestratorReturned =>
                /\ Called("basic_nack")
                /\ published = NoResponse

C4_Witness ==
    /\ Done
    /\ ~OrchestratorReturned
    /\ raised = "invoke"
    /\ Called("basic_nack")
    /\ published = NoResponse

C6_OneUnackedSequential ==
    /\ Cardinality(unacked) <= 1
    /\ Len(buffer) <= 1
    /\ (Handling /\ pc \notin {"task_done", "except", "except_notify", "done", "stopped"})
          => /\ unacked = {cur.tag}
             /\ buffer = <<>>

C6_Witness ==
    /\ pc = "parse"
    /\ cur.tag = 2
    /\ unacked = {2}

\* C7: the duplicate check is called if and only if finalizar_operacion is true,
\* and then before the arqueo window is opened and before any fill, validate or
\* print step.
C7_DuplicateCheckFirstIffFinalize ==
    /\ Called("check_for_duplicates") =>
          /\ Called("create_arqueo_data")
          /\ datos_arqueo.finalizar_operacion
    /\ ( /\ Called("create_arqueo_data")
         /\ datos_arqueo.finalizar_operacion
         /\ pc # "op_dup" ) => Called("check_for_duplicates")
    /\ \A e \in SessionSteps :
          (Called(e) /\ datos_arqueo.finalizar_operacion) =>
              /\ Called("check_for_duplicates")
              /\ Pos("check_for_duplicates") < Pos(e)
    /\ entered # <<>> => Called("fill_main_panel_data")

C7_Witness ==
    /\ datos_arqueo.finalizar_operacion
    /\ Called("check_for_duplicates")
    /\ Called("print_operation_document")

\* C8: with finalizar_operacion true and a duplicate query reporting n >= 1
\* records, the Result is P_DUPLICATED with similiar_records_encountered = n and
\* sical_is_open false, and no session, fill, validate or print step was made.
C8_DuplicateFoundAborts ==
    (Handling /\ reported.kind = "count" /\ reported.n >= 1) =>
        /\ datos_arqueo.finalizar_operacion
        /\ result.status = "P_DUPLICATED"
        /\ result.similiar_records_encountered = reported.n
        /\ ~result.sical_is_open
        /\ \A e \in SessionSteps : ~Called(e)
        /\ entered = <<>>
        /\ pc \notin { "op_open", "op_process", "op_fill", "op_fill_item",
                       "op_after_fill", "op_validate", "op_print" }

C8_Witness ==
    /\ OrchestratorReturned
    /\ reported.kind = "count"
    /\ reported.n = 3
    /\ result.similiar_records_encountered = 3

\* C9: with finalizar_operacion true, no duplicates, a session opened, the fill
\* and the validation done, a failing print gives INCOMPLETED (not FAILED) and
\* num_operacion is the number validate read.
C9_PrintFailureIsIncompleted ==
    Called("print_exception") =>
        /\ datos_arqueo.finalizar_operacion
        /\ reported.kind = "no_records"
        /\ result.sical_is_open
        /\ ~Called("validate_exception")
        /\ result.status = "INCOMPLETED"
        /\ result.num_operacion = "OP1"

C9_Witness ==
    /\ OrchestratorReturned
    /\ Called("print_exception")
    /\ published.status = "INCOMPLETED"

PositiveItems(apps) ==
    { k \in 1..Len(apps) :
        ImporteOk(apps[k].importe) /\ ImporteValue(apps[k].importe) > 0 }

\* C10: for naturaleza '4' and two or more strictly positive line items, the fill
\* enters and sums only the first positive item: no later item is entered and
\* suma_aplicaciones is the first positive item's amount.
C10_ExpenseEntersOnlyFirst ==
    LET apps == datos_arqueo.aplicaciones
        pos == PositiveItems(apps)
        first == CHOOSE k \in pos : \A j \in pos : k <= j
    IN  (datos_arqueo.naturaleza = "4" /\ Cardinality(pos) >= 2) =>
            /\ Len(entered) <= 1
            /\ result.suma_aplicaciones.some =>
                  /\ entered = << first >>
                  /\ result.suma_aplicaciones.v = ImporteValue(apps[first].importe)

RECURSIVE PositiveUpTo(_, _)
\* the indices of the strictly positive items among the first k, in order
PositiveUpTo(apps, k) ==
    IF k = 0 THEN <<>>
    ELSE IF ImporteOk(apps[k].importe) /\ ImporteValue(apps[k].importe) > 0
         THEN Append(PositiveUpTo(apps, k - 1), k)
         ELSE PositiveUpTo(apps, k - 1)

RECURSIVE SumImportes(_, _)
\* the sum of the amounts of the items at the indices ks
SumImportes(apps, ks) ==
    IF ks = <<>> THEN 0
    ELSE ImporteValue(apps[Head(ks)].importe) + SumImportes(apps, Tail(ks))

\* C11: for naturaleza '5', when the fill completes without exception, the items
\* entered are exactly the strictly positive items of the record, in their
\* order, each once, and suma_aplicaciones is the sum of their amounts; an item
\* with amount zero stays in the record and is neither entered nor summed.
C11_IncomeEntersAllPositive ==
    LET apps == datos_arqueo.aplicaciones IN
    (datos_arqueo.naturaleza = "5" /\ result.suma_aplicaciones.some) =>
        /\ Len(apps) = Len(cur.body.detalle.aplicaciones)
        /\ entered = PositiveUpTo(apps, Len(apps))
        /\ result.suma_aplicaciones.v = SumImportes(apps, entered)
        /\ \A k \in 1..Len(apps) :
              ImporteValue(apps[k].importe) = 0 => \A j \in 1..Len(entered) : entered[j] # k

C11_Witness ==
    /\ datos_arqueo.naturaleza = "5"
    /\ result.suma_aplicaciones.some
    /\ entered = << 1, 2 >>
    /\ result.suma_aplicaciones.v = 35

C11_WitnessZeroItem ==
    /\ datos_arqueo.naturaleza = "5"
    /\ result.suma_aplicaciones.some
    /\ Len(datos_arqueo.aplicaciones) = 2
    /\ ImporteValue(datos_arqueo.aplicaciones[1].importe) = 0
    /\ entered = << 2 >>

TerminalStatuses == {"COMPLETED", "INCOMPLETED", "FAILED", "P_DUPLICATED"}

\* C12: COMPLETED, INCOMPLETED, FAILED and P_DUPLICATED are terminal: once the
\* Result of an operation has one of these statuses, no later step of the same
\* operation changes the status.
C12_TerminalStatusNeverChanges ==
    [][ (Handling /\ cur'.tag = cur.tag /\ result.status \in TerminalStatuses)
            => result'.status = result.status ]_vars

\* C13: every Result operacion_arqueo returns with status FAILED, INCOMPLETED or
\* P_DUPLICATED has an error message that is not null, on every path that gives
\* that status, and so has the response published for it.
C13_UnfavourableHasError ==
    (OrchestratorReturned /\ result.status \in Unfavourable) =>
        /\ result.error # None
        /\ published # NoResponse => published.error # None

C13_Witness ==
    /\ OrchestratorReturned
    /\ result.status = "P_DUPLICATED"
    /\ result.error = "Possible duplicate operation found"
    /\ published.error = "Possible duplicate operation found"

\* the error messages a Result carries when its failure is an exception of
\* TASK_CALLBACK
ObserverErrors == { ObserverError, "Duplicate check error: observer_exc",
                    "Validation error: observer_exc" }

\* C14: a broken observer is silently tolerated: an exception raised by
\* STATUS_CALLBACK never reaches the except clause of callback (so it never
\* turns the ack of a message into a nack or keeps the orchestrator from being
\* called), and an exception raised by TASK_CALLBACK never becomes the failure
\* of the operation: status and ack/nack are those of the run where the
\* observer does not raise.
C14_BrokenObserverTolerated ==
    /\ raised # "observer"
    /\ result.error \notin ObserverErrors

\* C15: on every exception path of an operation while the arqueo window is open
\* (an exception during the fill, the validation or the print, or anywhere after
\* the window was opened; with the window open, FAILED and INCOMPLETED only come
\* from exceptions), handle_error_cleanup is called before operacion_arqueo
\* returns.
C15_CleanupOnEveryExceptionPath ==
    ( /\ OrchestratorReturned
      /\ result.sical_is_open
      /\ result.status \in {"FAILED", "INCOMPLETED"} )
        => Called("handle_error_cleanup")

\* the threads that are executing operacion_arqueo
InOperation == { t \in 1..Len(threads) : threads[t].at = "operacion_arqueo" }

\* C16: whatever the interleaving of start_service and stop_service calls and
\* message deliveries, at most one thread is executing operacion_arqueo at any
\* time; indeed at most one consumer thread is alive.
C16_OneThreadInOperation ==
    /\ Cardinality(InOperation) <= 1
    /\ Cardinality({ t \in 1..Len(threads) : IsAlive(t) }) <= 1

\* the service stopped and started again while an operation is running
C16_Witness ==
    /\ \E t \in 1..Len(threads) :
          /\ threads[t].at = "operacion_arqueo"
          /\ threads[t].connection = "closed"
    /\ ~service_running
    /\ service_log = "Service is already running"

\* the record has the payload's nature and line items
RecordOfPayload(datos, payload) ==
    /\ datos.naturaleza = payload.naturaleza
    /\ Len(datos.aplicaciones) = Len(payload.aplicaciones)
    /\ \A k \in 1..Len(payload.aplicaciones) :
          /\ datos.aplicaciones[k].partida = str_economica(payload.aplicaciones[k].economica)
          /\ datos.aplicaciones[k].importe = CoerceImporte(payload.aplicaciones[k].importe)

\* C17: both inbound shapes are accepted: whether operation_data.operation is
\* {tipo, detalle: payload} or the payload itself, the record the orchestrator
\* builds has the payload's nature and line items.
C17_BothShapesAccepted ==
    (Called("create_arqueo_data") /\ cur.body.kind \in {"ok", "ok_raw"}) =>
        RecordOfPayload(datos_arqueo, cur.body.detalle)

\* C18: for every description text: if it ends with '_FIN', the summary is the
\* text with exactly that suffix removed, only trailing whitespace trimmed, and
\* finalizar_operacion is true; otherwise the summary is the text unchanged and
\* finalizar_operacion is false.
C18_FinalizeStripsExactlySuffix ==
    LET ts == cur.body.detalle.texto_sical
        texto == ts.tcargo.s
    IN  (pc = "transformed" /\ ts.kind = "tcargo" /\ ~ts.tcargo.null) =>
            IF EndsWith(texto, FINALIZE_SUFFIX)
            THEN /\ datos_arqueo.resumen =
                        Text(RStrip(SubSeq(texto, 1, Len(texto) - Len(FINALIZE_SUFFIX))))
                 /\ datos_arqueo.finalizar_operacion
            ELSE /\ datos_arqueo.resumen = Text(texto)
                 /\ ~datos_arqueo.finalizar_operacion

\* C19: the summary is null whenever the description list is missing, empty, or
\* its first element has no description text.
C19_NoDescriptionGivesNull ==
    LET ts == cur.body.detalle.texto_sical IN
    (pc = "transformed" /\ (ts.kind \in {"missing", "empty", "no_tcargo"} \/ ts.tcargo.null))
        => datos_arqueo.resumen = NoneText

\* C20: for every line item the transformer keeps a boolean or an integer
\* contraido as it is, value and type, turns a float into int(value), and
\* anything else into bool(value).
C20_ContraidoCoercion ==
    LET raw == cur.body.detalle.aplicaciones
        apps == datos_arqueo.aplicaciones
    IN  pc = "transformed" =>
          /\ Len(apps) = Len(raw)
          /\ \A k \in 1..Len(raw) :
                LET c == raw[k].contraido
                    out == apps[k].contraido
                IN  /\ c.t \in {"bool", "int"} => out = c
                    /\ c.t = "float" => (out.t = "int" /\ out.n = c.n \div 10)
                    /\ c.t \in {"str", "none"} =>
                          (out.t = "bool" /\ out.b = (c.t = "str" /\ c.s # <<>>))

C20_Witness ==
    /\ pc = "transformed"
    /\ Len(datos_arqueo.aplicaciones) = 2
    /\ cur.body.detalle.aplicaciones[1].contraido = CInt(2500001)
    /\ datos_arqueo.aplicaciones[1].contraido = CInt(2500001)
    /\ cur.body.detalle.aplicaciones[2].contraido = CFloat(15)
    /\ datos_arqueo.aplicaciones[2].contraido = CInt(1)


\* the codes that are keys of the mapping table
MappedCodes == DOMAIN partidas_cuentaPG

C22_DuplicateCountAtLeastOne ==
    (Handling /\ result.status = "P_DUPLICATED") =>
        /\ reported.kind = "count" => result.similiar_records_encountered = reported.n
        /\ reported.kind \in {"exists", "empty"} => result.similiar_records_encountered = 1
        /\ result.similiar_records_encountered >= 1


\* the errors the duplicate check ends with: a window or element not found, an
\* empty list of line items, an exception before or during the query
DupCheckErrors ==
    { "Failed to open Consulta window", "Consulta window not found",
      "Filtros button not found", "Failed to open Filters window",
      "Total aplicaciones calculado == 0", "Duplicate check error",
      "Duplicate check error: observer_exc" }

\* C23: when the finalize intent is true and the duplicate check ends in error
\* (a required window or element is not found, or any exception during the
\* query), the orchestrator returns FAILED with sical_is_open false and without
\* opening the arqueo session or performing any fill, validate or print step.
C23_DupCheckErrorStopsBeforeOpen ==
    (Handling /\ Called("check_for_duplicates") /\ result.error \in DupCheckErrors) =>
        /\ datos_arqueo.finalizar_operacion
        /\ result.status = "FAILED"
        /\ ~result.sical_is_open
        /\ \A e \in {"setup_sical_window", "process_arqueo_operation",
                      "fill_main_panel_data", "validate_operation",
                      "print_operation_document"} : ~Called(e)
        /\ pc \notin {"op_open", "op_process", "op_fill", "op_fill_item",
                       "op_after_fill", "op_validate", "op_print"}

\* the query was executed and an exception followed; the orchestrator returned
C23_Witness ==
    /\ OrchestratorReturned
    /\ Called("query")
    /\ result.status = "FAILED"
    /\ result.error = "Duplicate check error"


\* every amount of the record is a number and none is strictly positive
NoPositiveAmount(apps) ==
    /\ \A k \in 1..Len(apps) : ImporteOk(apps[k].importe)
    /\ PositiveItems(apps) = {}

\* C24: when the finalize intent is true and the sum of the record's positive
\* line-item amounts is zero (no line items, or only zero-amount line items),
\* the duplicate check yields an error (operation FAILED) and the search query
\* is never executed against the external system.
C24_ZeroSumFailsWithoutQuery ==
    (Handling /\ datos_arqueo.finalizar_operacion /\ Called("check_for_duplicates")
        /\ NoPositiveAmount(datos_arqueo.aplicaciones)) =>
        /\ result.status = "FAILED"
        /\ ~Called("query")


\* the last call the log holds
LastEvent == IF events = <<>> THEN "none" ELSE events[Len(events)]

\* setup_sical_window was called and returned false, or raised; the log of the
\* orchestrator ends with that call
OpenFailed ==
    /\ Handling
    /\ Called("setup_sical_window")
    /\ \/ result.error = "Failed to open SICAL window"
       \/ result.error = "exc" /\ ~Called("process_arqueo_operation")

\* C25: if acquiring the session fails (setup_sical_window returns false or
\* raises), the orchestrator returns FAILED with an error that is not null,
\* sical_is_open stays false, the status never passes through IN_PROGRESS, and
\* no fill, validate or print step is performed.
C25_OpenFailureFails ==
    /\ [](OpenFailed =>
            /\ result.status = "FAILED"
            /\ result.error # None
            /\ ~result.sical_is_open
            /\ \A e \in SessionSteps \ {"setup_sical_window"} : ~Called(e)
            /\ pc \notin {"op_process", "op_fill", "op_fill_item", "op_after_fill",
                           "op_validate", "op_print"})
    /\ [](result.status = "IN_PROGRESS" => result.sical_is_open)
    /\ [][(Handling /\ cur'.tag = cur.tag /\ result.sical_is_open)
              => result'.sical_is_open]_vars

\* the orchestrator returned after setup_sical_window returned false
C25_Witness ==
    /\ OrchestratorReturned
    /\ LastEvent = "setup_sical_window"
    /\ result.error = "Failed to open SICAL window"
    /\ result.status = "FAILED"


\* fill_main_panel_data was called and left through its except clause: it did
\* not reach the assignment of result.suma_aplicaciones
FillRaised ==
    /\ Handling
    /\ Called("fill_main_panel_data")
    /\ pc # "op_fill_item"
    /\ ~result.suma_aplicaciones.some

\* C26: any exception raised during the fill, after any number of line items
\* have been entered, ends the operation with status FAILED and an error that
\* is not null, and neither validate nor print is attempted afterwards, even
\* when the finalize intent is true.
C26_FillExceptionFails ==
    FillRaised =>
        /\ result.status = "FAILED"
        /\ result.error # None
        /\ ~Called("validate_operation")
        /\ ~Called("print_operation_document")
        /\ pc \notin {"op_validate", "op_print"}

\* the fill raised after an item was entered, the finalize intent being true
C26_Witness ==
    /\ FillRaised
    /\ OrchestratorReturned
    /\ entered # <<>>
    /\ datos_arqueo.finalizar_operacion
    /\ result.status = "FAILED"


\* C27: with the finalize intent true and a successful fill, a failure of the
\* validate phase ends the operation with status FAILED, num_operacion stays
\* null, and the print phase is never attempted.
C27_ValidateFailureFails ==
    (Handling /\ Called("validate_exception")) =>
        /\ datos_arqueo.finalizar_operacion
        /\ result.suma_aplicaciones.some
        /\ result.status = "FAILED"
        /\ result.error # None
        /\ result.num_operacion = None
        /\ ~Called("print_operation_document")
        /\ pc # "op_print"

\* validate raised after a fill that entered an item; the orchestrator returned
C27_Witness ==
    /\ OrchestratorReturned
    /\ Called("validate_exception")
    /\ entered # <<>>
    /\ result.status = "FAILED"
    /\ result.num_operacion = None


\* C28: when the finalize intent is false, an operation whose session open and
\* fill succeed ends with status COMPLETED, and on every path the duplicate
\* check, the validate phase and the print phase are never invoked and
\* num_operacion remains null.
C28_NoFinalizeCompletesUnvalidated ==
    (Handling /\ Called("create_arqueo_data") /\ ~datos_arqueo.finalizar_operacion) =>
        /\ \A e \in {"check_for_duplicates", "query", "validate_operation",
                      "print_operation_document"} : ~Called(e)
        /\ pc \notin {"op_dup", "op_validate", "op_print"}
        /\ result.num_operacion = None
        /\ (OrchestratorReturned /\ result.sical_is_open /\ result.suma_aplicaciones.some)
              => result.status = "COMPLETED"

\* a record without the marker was opened and filled, an item entered, and the
\* orchestrator returned
C28_Witness ==
    /\ OrchestratorReturned
    /\ Called("create_arqueo_data")
    /\ ~datos_arqueo.finalizar_operacion
    /\ result.sical_is_open
    /\ result.suma_aplicaciones.some
    /\ entered # <<>>
    /\ result.status = "COMPLETED"


\* the positions inside operacion_arqueo
OrchestratorPcs ==
    { "op_prepare", "op_dup", "op_open", "op_process", "op_fill", "op_fill_item",
      "op_after_fill", "op_validate", "op_print", "op_return" }

\* operacion_arqueo was called and control is back in callback
BackInCallback == Handling /\ Called("operacion_arqueo") /\ pc \notin OrchestratorPcs

\* C29: every Result operacion_arqueo returns has end_time and duration set, on
\* every branch: the early returns on P_DUPLICATED, on a failed duplicate check
\* and on a failed session open, a caught exception, and normal completion.
C29_TimingSetOnEveryReturn ==
    BackInCallback => (result.end_time /\ result.duration)

\* the early return on P_DUPLICATED, the Result just handed back to callback
C29_Witness ==
    /\ BackInCallback
    /\ pc = "publish"
    /\ result.status = "P_DUPLICATED"
    /\ result.end_time
    /\ result.duration


\* the inbound operation has a line item whose amount is a string that is not
\* a decimal numeral (with '.' or ',' as the separator)
HasMalformedAmount(body) ==
    /\ body.kind \in {"ok", "ok_raw"}
    /\ \E k \in 1..Len(body.detalle.aplicaciones) :
          /\ body.detalle.aplicaciones[k].importe.t = "str"
          /\ ~IsDecimal(Replace(body.detalle.aplicaciones[k].importe.s, ",", "."))

\* C30: an operation containing a line item whose amount is a malformed numeric
\* string always ends with status FAILED and an error that is not null, for
\* every nature and both values of the finalize intent; the malformed amount is
\* never silently skipped and the operation never reaches COMPLETED or
\* INCOMPLETED.
C30_MalformedAmountFails ==
    (Handling /\ Called("operacion_arqueo") /\ HasMalformedAmount(cur.body)) =>
        /\ result.status \notin {"COMPLETED", "INCOMPLETED"}
        /\ BackInCallback => (result.status = "FAILED" /\ result.error # None)


\* C31: for naturaleza '4', a strictly positive line item that is entered has
\* its amount entered, is committed and is accumulated into suma_aplicaciones
\* whether its contraido is truthy or falsy: when the fill completes, the
\* first strictly positive item of the record is among the committed items
\* and its amount is in the sum.
C31_ExpenseEntersWhateverContraido ==
    LET apps == datos_arqueo.aplicaciones
        pos == PositiveItems(apps)
        first == CHOOSE k \in pos : \A j \in pos : k <= j
    IN
    (Handling /\ datos_arqueo.naturaleza = "4" /\ result.suma_aplicaciones.some
        /\ pos # {}) =>
        /\ \E j \in 1..Len(entered) : entered[j] = first
        /\ result.suma_aplicaciones.v >= ImporteValue(apps[first].importe)


\* C32: for a naturaleza other than '4' and '5', the fill enters and commits no
\* line item, suma_aplicaciones stays 0, and the unrecognized nature by itself
\* does not make the status FAILED: a fill that did not raise leaves the
\* status as it was, and without the finalize intent the operation ends
\* COMPLETED.
C32_OtherNatureEntersNothing ==
    (Handling /\ Called("fill_main_panel_data")
        /\ datos_arqueo.naturaleza \notin {"4", "5"}) =>
        /\ entered = <<>>
        /\ suma_aplicaciones = 0
        /\ result.suma_aplicaciones.some => result.suma_aplicaciones.v = 0
        /\ (result.suma_aplicaciones.some /\ pc = "op_after_fill")
              => result.status = "IN_PROGRESS"
        /\ (result.suma_aplicaciones.some /\ BackInCallback
               /\ ~datos_arqueo.finalizar_operacion) => result.status = "COMPLETED"

\* a record of nature '9' with a strictly positive item was filled and the
\* orchestrator returned COMPLETED
C32_Witness ==
    /\ BackInCallback
    /\ datos_arqueo.naturaleza = "9"
    /\ PositiveItems(datos_arqueo.aplicaciones) # {}
    /\ result.suma_aplicaciones.some
    /\ entered = <<>>
    /\ result.status = "COMPLETED"


\* C33: every Result operacion_arqueo returns has a terminal status: on every
\* path, caught exceptions included, the returned status is one of COMPLETED,
\* INCOMPLETED, FAILED and P_DUPLICATED, never PENDING or IN_PROGRESS.
C33_ReturnedStatusIsTerminal ==
    BackInCallback => result.status \in TerminalStatuses


\* an exception was caught with the window open, the cleanup ran, and the
\* Result handed back to callback is FAILED
C33_Witness ==
    /\ BackInCallback
    /\ pc = "publish"
    /\ Called("handle_error_cleanup")
    /\ result.sical_is_open
    /\ result.status = "FAILED"


\* basic_ack was sent for the delivery and did not raise
AckIssued == Called("basic_ack") /\ raised # "ack"

\* callback is over for the delivery: it returned, or an exception left it
CallbackOver == Handling /\ pc \in {"done", "stopped"}

\* C34: for every delivery callback handles, exactly one of basic_ack and
\* basic_nack is issued for its delivery tag: never both and never neither,
\* whatever step of callback raises.
C34_ExactlyOneOfAckAndNack ==
    CallbackOver => (AckIssued <=> ~Called("basic_nack"))


\* C35: an operation is never executed again through redelivery: if
\* operacion_arqueo returned a Result for a message, that message is
\* acknowledged and never negatively acknowledged or requeued, even when
\* publishing the response or sending the ack fails.
C35_ReturnedResultNeverRequeued ==
    (Handling /\ OrchestratorReturned) =>
        /\ ~Called("basic_nack")
        /\ CallbackOver => (AckIssued /\ cur.tag \notin unacked)


\* C36: when the duplicate check returns, on every exit path (no match, match
\* found, a required window or element missing, an empty list of line items,
\* an exception), every query window it opened (Consulta and Filtros) has been
\* closed, so that the next operation finds no leftover query window.
C36_QueryWindowsClosedOnReturn ==
    (Handling /\ Called("check_for_duplicates")) => query_windows = {}


\* C37: in every Result operacion_arqueo returns, num_operacion is not null
\* only if the finalize intent was true and validate succeeded, and then the
\* status is COMPLETED or INCOMPLETED and sical_is_open is true; conversely a
\* status INCOMPLETED, and a status COMPLETED with the finalize intent true,
\* always come with a num_operacion that is not null.
C37_OperationNumberIffValidated ==
    BackInCallback =>
        /\ result.num_operacion # None =>
              /\ datos_arqueo.finalizar_operacion
              /\ Called("validate_operation") /\ ~Called("validate_exception")
              /\ result.status \in {"COMPLETED", "INCOMPLETED"}
              /\ result.sical_is_open
        /\ (result.status = "INCOMPLETED"
               \/ (result.status = "COMPLETED" /\ datos_arqueo.finalizar_operacion))
              => result.num_operacion # None


\* the positions of the closing notifications in the log of the delivery
ClosingCalls ==
    { k \in 1..Len(events) : events[k] \in {"task_completed", "task_failed"} }

\* C38: for every message the consumer emits exactly one closing notification,
\* after the ack or nack: task_completed if and only if callback met no
\* exception and the Result status is COMPLETED or INCOMPLETED, and
\* task_failed otherwise (status FAILED or P_DUPLICATED, or an exception with
\* a known task_id); it never emits both for the same message.
C38_OneClosingNotification ==
    (Handling /\ pc = "done" /\ STATUS_CALLBACK /\ task_id # None) =>
        /\ Cardinality(ClosingCalls) = 1
        /\ ~(Called("task_completed") /\ Called("task_failed"))
        /\ \A k \in ClosingCalls :
              \E j \in 1..(k - 1) : events[j] \in {"basic_ack", "basic_nack"}
        /\ Called("task_completed") <=>
              (raised = "none" /\ result.status \in {"COMPLETED", "INCOMPLETED"})

\* no thread is inside a StatusManager method: every call made has returned
\* or has not yet taken the lock
NoCallRunning == \A t \in Threads : callers[t].at \in {"idle", "acquire"}

\* C39: after any sequence of task_received, task_started, task_completed and
\* reset_stats calls, from any interleaving of threads, every counter is
\* non-negative and total_processed = completed + failed
C39_CountersConsistent ==
    NoCallRunning =>
        /\ stats.pending >= 0
        /\ stats.processing >= 0
        /\ stats.completed >= 0
        /\ stats.failed >= 0
        /\ stats.total_processed >= 0
        /\ stats.total_processed = stats.completed + stats.failed

\* calls have completed a task with success and another without, and a third
\* is waiting for the lock while a thread is outside
C39_Witness ==
    /\ NoCallRunning
    /\ stats.completed = 1
    /\ stats.failed = 1
    /\ stats.total_processed = 1 + 1
    /\ stats.processing = 0
    /\ calls = MaxCalls

\* callback is over with its acknowledgement or rejection issued and its
\* closing notification emitted
HandledAndNotified ==
    /\ Handling
    /\ pc = "done"
    /\ Called("basic_ack") \/ Called("basic_nack")
    /\ Called("task_completed") \/ Called("task_failed")

\* C40: once the consumer has finished handling a message (ack or nack issued
\* and closing notification emitted), the status manager driven by the GUI
\* callbacks has pending = 0, processing = 0 and no current task
C40_NothingLeftBehind ==
    (gui_attached /\ HandledAndNotified) =>
        /\ stats.pending = 0
        /\ stats.processing = 0
        /\ current_task = None

====
